---------------------------- MODULE Spec2Model ----------------------------
(***************************************************************************)
(* Organization-substitution engine of the privacy-preserving chatbot      *)
(* prototype.                                                              *)
(*                                                                         *)
(* HybridOrganizationReplacer (SimilarOrgReplacement_BetterPerformance.py) *)
(* is modelled as a state machine over the instance fields; its catalog,   *)
(* keyword table and string algorithms are operators over TLA+ strings     *)
(* (Len, SubSeq and \o act on strings character by character).             *)
(* KnowledgeGraphReplacer (SimilarOrgReplacement.py) has a specification   *)
(* of its own over the same variables.                                     *)
(*                                                                         *)
(* Confidences are floats in the source; here they are integers in         *)
(* thousandths (1.0 = 1000, 0.7 = 700).                                    *)
(***************************************************************************)
EXTENDS Integers, Sequences, FiniteSets, TLC

(***************************************************************************)
(* Strings                                                                 *)
(***************************************************************************)

UpperLetters == "ABCDEFGHIJKLMNOPQRSTUVWXYZ"

LowerLetters == "abcdefghijklmnopqrstuvwxyz"

\* the character of s at Python index i (0-based)
CharAt(s, i) == SubSeq(s, i + 1, i + 1)

\* Python slice s[lo:hi] for 0 <= lo, hi; clipped to the string
Slice(s, lo, hi) ==
    LET h == IF hi > Len(s) THEN Len(s) ELSE hi
    IN  IF lo >= h THEN "" ELSE SubSeq(s, lo + 1, h)

IsUpperChar(c) == \E k \in 1..26 : SubSeq(UpperLetters, k, k) = c

IsLowerChar(c) == \E k \in 1..26 : SubSeq(LowerLetters, k, k) = c

LowerChar(c) ==
    IF IsUpperChar(c)
    THEN LET k == CHOOSE k \in 1..26 : SubSeq(UpperLetters, k, k) = c
         IN  SubSeq(LowerLetters, k, k)
    ELSE c

UpperChar(c) ==
    IF IsLowerChar(c)
    THEN LET k == CHOOSE k \in 1..26 : SubSeq(LowerLetters, k, k) = c
         IN  SubSeq(UpperLetters, k, k)
    ELSE c

RECURSIVE LowerChars(_)
\* str.lower(), character by character (halving keeps the evaluation shallow)
LowerChars(s) ==
    IF Len(s) = 0 THEN ""
    ELSE IF Len(s) = 1 THEN LowerChar(s)
    ELSE LET h == Len(s) \div 2
         IN  LowerChars(SubSeq(s, 1, h)) \o LowerChars(SubSeq(s, h + 1, Len(s)))

RECURSIVE StrUpper(_)
\* str.upper()
StrUpper(s) ==
    IF Len(s) = 0 THEN ""
    ELSE IF Len(s) = 1 THEN UpperChar(s)
    ELSE LET h == Len(s) \div 2
         IN  StrUpper(SubSeq(s, 1, h)) \o StrUpper(SubSeq(s, h + 1, Len(s)))

\* Python's `p in s` for strings
Contains(s, p) ==
    \E i \in 0..(Len(s) - Len(p)) : Slice(s, i, i + Len(p)) = p

\* the elements of a sequence
Range(seq) == {seq[i] : i \in 1..Len(seq)}

\* Python's `x in lst`
InList(x, lst) == \E i \in 1..Len(lst) : lst[i] = x

Min(a, b) == IF a < b THEN a ELSE b

\* F applied to v, with v evaluated once
With(v, F(_)) == F(v)

\* None
None == <<>>

\* a value that is not None
Some(v) == <<v>>

\* the empty dict
EmptyDict == <<>>

\* d[k] = v on a dict
DictSet(d, k, v) == (k :> v) @@ d

\* d.get(k, default)
DictGet(d, k, default) == IF k \in DOMAIN d THEN d[k] ELSE default

(***************************************************************************)
(* Inputs                                                                  *)
(***************************************************************************)

\* the draws of the random source are 0 .. MaxRandom - 1
MaxRandom == 3

\* the constructor is given max_web_requests in 0 .. MaxWebRequests
MaxWebRequests == 3

Entity(name, start, end_pos) == [name |-> name, start |-> start, end_pos |-> end_pos]

\* texts with the ORG entities extract_organizations finds in them
AppleDoc ==
    [text |-> "Apple sued Apple",
     entities |-> <<Entity("Apple", 0, 5), Entity("Apple", 11, 16)>>]

NinjaDoc ==
    [text |-> "CloudNinja beats AMAZON",
     entities |-> <<Entity("CloudNinja", 0, 10), Entity("AMAZON", 17, 23)>>]

SunDoc ==
    [text |-> "cloudninja and SunPower",
     entities |-> <<Entity("cloudninja", 0, 10), Entity("SunPower", 15, 23)>>]

TypoDoc ==
    [text |-> "Microsft hired staff", entities |-> <<Entity("Microsft", 0, 8)>>]

PlainDoc == [text |-> "Hello there", entities |-> <<>>]

Documents == {AppleDoc, NinjaDoc, SunDoc, TypoDoc, PlainDoc}

\* calls of replace_organizations_hybrid(text, custom_mapping); the empty
\* mapping also stands for None
Request(doc, mapping) == [doc |-> doc, custom_mapping |-> mapping]

\* the calls an instance may receive
Requests ==
    { Request(AppleDoc, EmptyDict),
      Request(AppleDoc, "Apple" :> "Initech"),
      Request(AppleDoc, "Apple" :> ""),
      Request(NinjaDoc, EmptyDict),
      Request(NinjaDoc, "CloudNinja" :> "Globex"),
      Request(SunDoc, EmptyDict),
      Request(TypoDoc, EmptyDict),
      Request(PlainDoc, EmptyDict) }

\* one instance serves at most MaxCalls calls
MaxCalls == 2

\* summaries the remote service may return for a name
EnergySummary == "An American energy company that builds solar power plants and wind farms."

PlainSummary == "A family owned firm founded long ago in the north of the country."

\* a summary too short to be used
ShortSummary == "A firm."

\* a summary of exactly 50 characters, one too short to be used
FiftySummary == "A bank that lends on credit in towns by the river."

\* a summary of 100 characters with two terms of finance: confidence 0.4
BankSummary == "A bank in the north of the country that lends on credit to its members in the towns along the river."

(***************************************************************************)
(* Category catalog: _initialize_core_database                             *)
(***************************************************************************)

\* self.core_db, in dict order
core_db ==
    << [industry |-> "technology", orgs |->
          << "Apple", "Microsoft", "Google", "Amazon", "Meta", "Tesla", "Netflix",
             "Adobe", "Salesforce", "Oracle", "IBM", "Intel", "NVIDIA", "Cisco",
             "ServiceNow", "Zoom", "Slack", "Shopify", "PayPal", "Uber", "Airbnb",
             "Spotify", "Twitter", "LinkedIn", "TikTok", "Samsung", "Sony", "OpenAI",
             "Anthropic", "DeepMind", "Figma", "Notion", "Discord", "Reddit", "Dropbox" >>],
       [industry |-> "finance", orgs |->
          << "JPMorgan Chase", "Bank of America", "Wells Fargo", "Citigroup",
             "Goldman Sachs", "Morgan Stanley", "BlackRock", "Visa", "Mastercard",
             "American Express", "Capital One", "Charles Schwab", "Robinhood",
             "Stripe", "Square", "Coinbase", "Fidelity", "Vanguard" >>],
       [industry |-> "healthcare", orgs |->
          << "Johnson & Johnson", "Pfizer", "Moderna", "UnitedHealth", "CVS Health",
             "Merck", "AbbVie", "Bristol Myers Squibb", "Eli Lilly", "Amgen",
             "Walgreens", "Kaiser Permanente", "Anthem", "Humana", "Cigna" >>],
       [industry |-> "retail", orgs |->
          << "Walmart", "Amazon", "Target", "Costco", "Home Depot", "Starbucks",
             "McDonald's", "Nike", "Coca-Cola", "PepsiCo", "Procter & Gamble" >>],
       [industry |-> "automotive", orgs |->
          << "Tesla", "Ford", "General Motors", "Toyota", "BMW", "Mercedes-Benz",
             "Volkswagen", "Honda", "Nissan", "Hyundai", "Rivian", "Lucid Motors" >>],
       [industry |-> "media", orgs |->
          << "Disney", "Netflix", "Warner Bros", "Comcast", "CNN", "BBC",
             "New York Times", "Washington Post", "Reuters", "Bloomberg" >>],
       [industry |-> "education", orgs |->
          << "Harvard University", "Stanford University", "MIT", "Yale University",
             "Princeton University", "Columbia University", "UC Berkeley", "UCLA" >>],
       [industry |-> "aerospace", orgs |->
          << "Boeing", "Airbus", "SpaceX", "Blue Origin", "Lockheed Martin",
             "American Airlines", "Delta Air Lines", "United Airlines" >>] >>

\* the names of the catalog
CatalogNames == UNION {Range(entry.orgs) : entry \in Range(core_db)}

\* the organization names that occur in the documents
InputNames ==
    UNION {{doc.entities[i].name : i \in 1..Len(doc.entities)} : doc \in Documents}

\* names to classify on a new instance: of the catalog, near a catalog name,
\* with the terms of Method 5, with other keywords, and with none
TierNames ==
    { "Harvard University", "harvard university", "Microsft", "Gogle",
      "Oakwood University", "Kings College", "Hill School", "First Bank",
      "Northern Financial", "Mercy Hospital", "Zed Medical", "Health First",
      "Bank of Health", "Sunrise Solar", "CloudNinja", "DataCloud Software",
      "DataCloud Software Systems", "Solar Wind", "Acme", "Zed", "Quick Loans", "Star Media" }

\* names of the catalog, with keywords and with none
SimilarNames ==
    { "Apple", "CloudNinja", "Solar Wind", "DataCloud Software" }

\* a name for each category of industry_patterns but technology and energy,
\* and names of the two shortest lists of the catalog
CategoryNames ==
    { "First Bank", "Mercy Hospital", "Corner Store", "City Motor", "Star Media",
      "Kings College", "Sky Aviation", "Boeing", "MIT" }

\* names of the catalog, near a catalog name, and with three keywords, two,
\* one and none
DiscoverNames ==
    { "Apple", "Microsft", "DataCloud Software", "Solar Wind", "CloudNinja", "Acme" }

\* the names the methods are applied to on their own
ProbeNames == TierNames \cup SimilarNames \cup CategoryNames \cup DiscoverNames

\* the summaries the remote service may return
Summaries == {EnergySummary, PlainSummary, ShortSummary, FiftySummary, BankSummary}

\* str.lower() of the strings that recur, computed once
LowerMemo ==
    [s \in CatalogNames \cup InputNames \cup ProbeNames \cup Summaries
        |-> LowerChars(s)]

\* str.lower()
StrLower(s) == DictGet(LowerMemo, s, LowerChars(s))

\* catalog.get(industry, []) for a catalog in dict order
CatalogGet(catalog, ind) ==
    IF \E k \in 1..Len(catalog) : catalog[k].industry = ind
    THEN catalog[CHOOSE k \in 1..Len(catalog) : catalog[k].industry = ind].orgs
    ELSE <<>>

\* self.core_db.get(industry, [])
CoreDbGet(ind) == CatalogGet(core_db, ind)

RECURSIVE FlattenCatalog(_)
\* the (org.lower(), industry) assignments of the reverse-lookup loop, in order
FlattenCatalog(catalog) ==
    IF Len(catalog) = 0 THEN <<>>
    ELSE [j \in 1..Len(Head(catalog).orgs) |->
             [org |-> StrLower(Head(catalog).orgs[j]),
              industry |-> Head(catalog).industry]]
         \o FlattenCatalog(Tail(catalog))

CatalogWrites == FlattenCatalog(core_db)

\* the dict a sequence of assignments leaves: a later assignment to the same
\* key overwrites the value
DictOfWrites(writes) ==
    [n \in {writes[i].org : i \in 1..Len(writes)} |->
        writes[CHOOSE i \in 1..Len(writes) :
                  /\ writes[i].org = n
                  /\ \A j \in (i + 1)..Len(writes) : writes[j].org # n].industry]

\* self.org_to_industry
org_to_industry == DictOfWrites(CatalogWrites)

\* d.items() of the dict d that the assignments left: keys in order of first
\* insertion
ItemsOfWrites(writes, d) ==
    LET firsts == {i \in 1..Len(writes) :
                      \A j \in 1..(i - 1) : writes[j].org # writes[i].org}
    IN  [k \in 1..Cardinality(firsts) |->
            LET i == CHOOSE i \in firsts : Cardinality({j \in firsts : j <= i}) = k
            IN  [org |-> writes[i].org, industry |-> d[writes[i].org]]]

\* self.org_to_industry.items()
org_to_industry_items == ItemsOfWrites(CatalogWrites, org_to_industry)

\* self.industry_patterns, in dict order
industry_patterns ==
    << [industry |-> "technology", patterns |->
          << "tech", "software", "ai", "digital", "cyber", "cloud", "data", "app",
             "platform", "systems", "solutions", "computing", "internet", "mobile" >>],
       [industry |-> "finance", patterns |->
          << "bank", "financial", "capital", "fund", "investment", "credit", "loan",
             "insurance", "trading", "securities", "fintech", "payments", "crypto" >>],
       [industry |-> "healthcare", patterns |->
          << "health", "medical", "pharma", "bio", "clinic", "hospital", "care",
             "therapeutics", "diagnostics", "wellness", "medicine", "treatment" >>],
       [industry |-> "retail", patterns |->
          << "retail", "store", "shop", "market", "brand", "consumer", "fashion",
             "commerce", "merchandise", "sales", "shopping", "marketplace" >>],
       [industry |-> "automotive", patterns |->
          << "auto", "car", "vehicle", "motor", "automotive", "transport", "mobility",
             "electric", "ev", "manufacturing", "assembly" >>],
       [industry |-> "media", patterns |->
          << "media", "news", "broadcasting", "entertainment", "publishing", "content",
             "streaming", "production", "studios", "network", "channel" >>],
       [industry |-> "education", patterns |->
          << "university", "college", "school", "education", "academic", "institute",
             "learning", "research", "campus", "faculty", "student" >>],
       [industry |-> "energy", patterns |->
          << "energy", "oil", "gas", "power", "electric", "renewable", "solar",
             "wind", "nuclear", "utilities", "grid", "fuel" >>],
       [industry |-> "aerospace", patterns |->
          << "aerospace", "aviation", "airline", "aircraft", "flight", "space",
             "defense", "military", "rocket", "satellite" >>] >>

(***************************************************************************)
(* difflib.SequenceMatcher(None, a, b).ratio(): both strings are far       *)
(* shorter than 200 characters, so the automatic junk heuristic is off.    *)
(***************************************************************************)

RECURSIVE CommonRun(_, _, _, _, _, _)
\* length of the common run of a[i:ahi] and b[j:bhi] starting at i and j
CommonRun(a, i, ahi, b, j, bhi) ==
    IF i >= ahi \/ j >= bhi \/ CharAt(a, i) # CharAt(b, j) THEN 0
    ELSE 1 + CommonRun(a, i + 1, ahi, b, j + 1, bhi)

\* find_longest_match: the longest block; of those the earliest in a, then in b
find_longest_match(a, alo, ahi, b, blo, bhi) ==
    LET starts == {p \in (alo..(ahi - 1)) \X (blo..(bhi - 1)) :
                      CharAt(a, p[1]) = CharAt(b, p[2])}
        runs == [p \in starts |-> CommonRun(a, p[1], ahi, b, p[2], bhi)]
    IN  IF starts = {} THEN [i |-> alo, j |-> blo, size |-> 0]
        ELSE LET best == CHOOSE p \in starts :
                            \A q \in starts :
                               \/ runs[q] < runs[p]
                               \/ /\ runs[q] = runs[p]
                                  /\ \/ p[1] < q[1]
                                     \/ p[1] = q[1] /\ p[2] <= q[2]
             IN  [i |-> best[1], j |-> best[2], size |-> runs[best]]

RECURSIVE MatchedChars(_, _, _, _, _, _)
\* sum of the sizes of get_matching_blocks()
MatchedChars(a, alo, ahi, b, blo, bhi) ==
    IF alo >= ahi \/ blo >= bhi THEN 0
    ELSE LET m == find_longest_match(a, alo, ahi, b, blo, bhi)
         IN  IF m.size = 0 THEN 0
             ELSE m.size
                  + MatchedChars(a, alo, m.i, b, blo, m.j)
                  + MatchedChars(a, m.i + m.size, ahi, b, m.j + m.size, bhi)

\* ratio() as the exact fraction 2*M / T
SequenceRatio(a, b) ==
    [num |-> 2 * MatchedChars(a, 0, Len(a), b, 0, Len(b)), den |-> Len(a) + Len(b)]

\* x > y for fractions with positive denominators
RatioGreater(x, y) == x.num * y.den > y.num * x.den

\* a fraction of [0,1] as a confidence in thousandths
RatioConfidence(r) == (1000 * r.num) \div r.den

\* the loop of Method 3: the first known organization with the highest
\* similarity among those above 0.7 (a later equal similarity does not replace it)
FuzzyScan(org_lower, items) ==
    LET scored == {<<k, SequenceRatio(org_lower, items[k].org)>> : k \in 1..Len(items)}
        above == {m \in scored : RatioGreater(m[2], [num |-> 7, den |-> 10])}
    IN  IF above = {} THEN [industry |-> "", similarity |-> [num |-> 0, den |-> 1]]
        ELSE LET best == CHOOSE m \in above :
                            /\ \A n \in above : ~RatioGreater(n[2], m[2])
                            /\ \A n \in above :
                                  n[1] < m[1] => RatioGreater(m[2], n[2])
             IN  [industry |-> items[best[1]].industry, similarity |-> best[2]]

\* FuzzyScan of the lower-cased input names, computed once
FuzzyMemo ==
    [n \in {StrLower(name) : name \in InputNames \cup ProbeNames} |->
        FuzzyScan(n, org_to_industry_items)]

\* Method 3 of fast_categorize_organization; industry "" stands for None
FuzzyMatch(org_lower) ==
    DictGet(FuzzyMemo, org_lower, FuzzyScan(org_lower, org_to_industry_items))

(***************************************************************************)
(* Keyword scoring: Method 4 and categorize_from_description               *)
(***************************************************************************)

\* sum(1 for pattern in patterns if pattern in text)
PatternScore(patterns, txt) ==
    Cardinality({k \in 1..Len(patterns) : Contains(txt, patterns[k])})

\* `if score > 0: scores[industry] = score`
ScoreEntry(entry, score) ==
    IF score > 0 THEN <<[industry |-> entry.industry, score |-> score]>> ELSE <<>>

RECURSIVE ScorePatterns(_, _)
\* the loop over the (industry, patterns) items
ScorePatterns(items, txt) ==
    IF Len(items) = 0 THEN <<>>
    ELSE ScoreEntry(Head(items), PatternScore(Head(items).patterns, txt))
         \o ScorePatterns(Tail(items), txt)

\* the dict of positive scores, as the industries in insertion order
ScoreIndustries(txt) == ScorePatterns(industry_patterns, txt)

\* ScoreIndustries of the lower-cased input names and summaries, computed once
ScoreMemo ==
    [t \in {StrLower(x) : x \in InputNames \cup ProbeNames \cup Summaries}
        |-> ScoreIndustries(t)]

\* the positive keyword scores of a text
ScoredIndustries(txt) == DictGet(ScoreMemo, txt, ScoreIndustries(txt))

\* max() taken to return the last of the entries with the highest score
LastMaxByScore(scored) ==
    scored[CHOOSE k \in 1..Len(scored) :
              /\ \A j \in 1..Len(scored) : scored[j].score <= scored[k].score
              /\ \A j \in (k + 1)..Len(scored) : scored[j].score < scored[k].score]

\* max(scores, key=scores.get): the first key that has the highest score
MaxByScore(scored) ==
    scored[CHOOSE k \in 1..Len(scored) :
              /\ \A j \in 1..Len(scored) : scored[j].score <= scored[k].score
              /\ \A j \in 1..(k - 1) : scored[j].score < scored[k].score]

\* any(term in org_lower for term in terms)
AnyTerm(org_lower, terms) == \E t \in terms : Contains(org_lower, t)

\* Methods 1 to 5 for org_lower = org_name.lower(); known is
\* self.org_to_industry and learned is self.learned_patterns
CategorizeLower(org_lower, known, learned) ==
      IF org_lower \in DOMAIN known THEN
          [industry |-> known[org_lower], confidence |-> 1000]
      ELSE IF org_lower \in DOMAIN learned THEN
          [industry |-> learned[org_lower], confidence |-> 800]
      ELSE With(FuzzyMatch(org_lower), LAMBDA fuzzy :
        IF fuzzy.industry # "" THEN
            [industry |-> fuzzy.industry,
             confidence |-> RatioConfidence(fuzzy.similarity)]
        ELSE With(ScoredIndustries(org_lower), LAMBDA pattern_scores :
          IF Len(pattern_scores) > 0 THEN
              With(MaxByScore(pattern_scores), LAMBDA best_industry :
                [industry |-> best_industry.industry,
                 confidence |-> Min(600, best_industry.score * 200)])
          ELSE IF AnyTerm(org_lower, {"university", "college", "school"}) THEN
              [industry |-> "education", confidence |-> 700]
          ELSE IF AnyTerm(org_lower, {"bank", "financial"}) THEN
              [industry |-> "finance", confidence |-> 700]
          ELSE IF AnyTerm(org_lower, {"hospital", "medical", "health"}) THEN
              [industry |-> "healthcare", confidence |-> 700]
          ELSE [industry |-> "technology", confidence |-> 300]))

\* fast_categorize_organization, uncached body; learned is self.learned_patterns
CategorizeUncached(org_name, learned) ==
    CategorizeLower(StrLower(org_name), org_to_industry, learned)

\* categorize_from_description
categorize_from_description(description) ==
    With(ScoredIndustries(StrLower(description)), LAMBDA industry_scores :
      IF Len(industry_scores) = 0 THEN
          [industry |-> "technology", confidence |-> 300]
      ELSE With(MaxByScore(industry_scores), LAMBDA best_industry :
             [industry |-> best_industry.industry,
              confidence |-> Min(900, best_industry.score * 150 + Len(description))]))

\* the lookupCategory of the catalog: case-insensitive exact match, "" for none
lookupCategory(name) == DictGet(org_to_industry, StrLower(name), "")

(***************************************************************************)
(* Synthetic name generator: generate_contextual_organization              *)
(***************************************************************************)

\* the characters \s matches, among those the modelled names contain
IsSpace(c) == c = " "

IsLetter(c) == IsUpperChar(c) \/ IsLowerChar(c)

\* str.strip()
Strip(s) ==
    LET solid == {i \in 1..Len(s) : ~IsSpace(SubSeq(s, i, i))}
    IN  IF solid = {} THEN ""
        ELSE SubSeq(s, CHOOSE i \in solid : \A j \in solid : i <= j,
                       CHOOSE i \in solid : \A j \in solid : j <= i)

\* str.split(): the maximal runs of non-whitespace characters, in order
Split(s) ==
    LET starts == {i \in 1..Len(s) :
                      /\ ~IsSpace(SubSeq(s, i, i))
                      /\ i = 1 \/ IsSpace(SubSeq(s, i - 1, i - 1))}
        WordEnd(i) == CHOOSE j \in i..Len(s) :
                         /\ \A k \in i..j : ~IsSpace(SubSeq(s, k, k))
                         /\ j = Len(s) \/ IsSpace(SubSeq(s, j + 1, j + 1))
    IN  [k \in 1..Cardinality(starts) |->
            LET i == CHOOSE i \in starts : Cardinality({j \in starts : j <= i}) = k
            IN  SubSeq(s, i, WordEnd(i))]

RECURSIVE TitleRange(_, _, _)
\* str.title() of s[lo..hi]: a letter is upper-cased after a non-letter, else lower-cased
TitleRange(s, lo, hi) ==
    IF lo > hi THEN ""
    ELSE IF lo = hi THEN
        IF lo = 1 \/ ~IsLetter(SubSeq(s, lo - 1, lo - 1))
        THEN UpperChar(SubSeq(s, lo, lo)) ELSE LowerChar(SubSeq(s, lo, lo))
    ELSE LET h == (lo + hi) \div 2
         IN  TitleRange(s, lo, h) \o TitleRange(s, h + 1, hi)

\* str.title()
Title(s) == TitleRange(s, 1, Len(s))

\* the alternatives of the suffix pattern, lower-cased (the match ignores case)
corporate_suffixes ==
    {"inc", "corp", "ltd", "company", "co", "group", "llc", "llp",
     "solutions", "systems", "technologies"}

\* whether tail matches (Inc|Corp|...)\.?$ ignoring case
IsSuffixTail(tail) ==
    LET t == StrLower(tail)
    IN  \/ t \in corporate_suffixes
        \/ /\ Len(t) > 1
           /\ SubSeq(t, Len(t), Len(t)) = "."
           /\ SubSeq(t, 1, Len(t) - 1) \in corporate_suffixes

\* re.sub(r'\s+(Inc|Corp|...)\.?$', '', org_name, flags=re.IGNORECASE): the
\* leftmost position from which a whitespace run and a suffix reach the end
StripCorporateSuffix(org_name) ==
    LET matches == {i \in 1..Len(org_name) :
                       \E j \in (i + 1)..Len(org_name) :
                          /\ \A k \in i..(j - 1) : IsSpace(SubSeq(org_name, k, k))
                          /\ IsSuffixTail(SubSeq(org_name, j, Len(org_name)))}
    IN  IF matches = {} THEN org_name
        ELSE SubSeq(org_name, 1, (CHOOSE i \in matches : \A j \in matches : i <= j) - 1)

\* industry_suffixes.get(industry, ['Corp', 'Group', 'Enterprises'])
IndustrySuffixes(ind) ==
    CASE ind = "technology" -> <<"Tech", "Systems", "Digital", "Solutions">>
      [] ind = "finance" -> <<"Financial", "Capital", "Investment", "Securities">>
      [] ind = "healthcare" -> <<"Health", "Medical", "Care", "Bio">>
      [] ind = "retail" -> <<"Retail", "Commerce", "Brands", "Market">>
      [] ind = "education" -> <<"Institute", "Academy", "University", "College">>
      [] OTHER -> <<"Corp", "Group", "Enterprises">>

\* lines 364-393: the list `variations` built from base_name, its words and
\* the industry's suffixes
VariationsFrom(base_name, words, ind, suffixes) ==
    (IF Len(words) > 1
     THEN << words[1] \o " " \o Title(ind),
             "Global " \o words[Len(words)],
             words[Len(words)] \o " Enterprises",
             "Premier " \o words[1] \o " " \o words[2] >>
     ELSE << base_name \o " Technologies",
             "Advanced " \o base_name,
             base_name \o " Group",
             "Global " \o base_name,
             base_name \o " Solutions" >>)
    \o [k \in 1..2 |-> base_name \o " " \o suffixes[k]]

\* lines 364 and 392: words = base_name.split() and the suffixes of the industry
VariationsOfBase(base_name, ind) ==
    VariationsFrom(base_name, Split(base_name), ind, IndustrySuffixes(ind))

\* the list `variations` that generate_contextual_organization chooses from
GeneratedVariations(org_name, ind) ==
    VariationsOfBase(Strip(StripCorporateSuffix(org_name)), ind)

\* random.choice(seq) with the draw rnd of the random source
RandomChoice(seq, rnd) == seq[(rnd % Len(seq)) + 1]

\* random.shuffle(seq): the permutation the draw selects (the rotations of seq)
RandomShuffle(seq, rnd) ==
    [i \in 1..Len(seq) |-> seq[((i - 1 + rnd) % Len(seq)) + 1]]

\* generate_contextual_organization
generate_contextual_organization(org_name, ind, rnd) ==
    RandomChoice(GeneratedVariations(org_name, ind), rnd)

(***************************************************************************)
(* State                                                                   *)
(***************************************************************************)

VARIABLES
    \* HybridOrganizationReplacer: constructor arguments
    enable_web_fallback, max_web_requests,
    \* HybridOrganizationReplacer: instance fields
    failed_lookups, web_request_count, learned_patterns, dynamic_cache,
    \* the lru_cache of fast_categorize_organization: org_name -> result, and
    \* its keys from the least to the most recently used
    categorize_cache, lru_order,
    \* the requests.get calls issued so far: <<[name, outcome]>>
    net_log,
    \* replace_organizations_hybrid: position, arguments and locals
    pc, text, custom_mapping, organizations, modified_text, replacements_made,
    metadata, industry, confidence,
    \* what each loop iteration did, in processing order
    applied,
    \* how many times replace_organizations_hybrid was called
    calls,
    \* a method applied on its own: its arguments, and None or its result
    probe, outcome,
    \* KnowledgeGraphReplacer.batch_replace_organizations: position, arguments
    \* (batch_text, batch_given) and locals
    batch_pc, batch_text, batch_given, batch_pending, batch_modified_text,
    batch_replacements,
    \* app.py, fake_ner_replace and restore_fake_ner: position, the text given
    \* to nlp (ner_text), the entities still to process (ents), the locals
    \* fake_value, fake_text and ner_map, and None or the restored text
    ner_pc, ner_text, ents, fake_value, fake_text, ner_map, restored,
    \* KnowledgeGraphReplacer: the field cache, and the lookups of
    \* build_organization_profile so far (kg_builds) with the requests they sent
    \* to the knowledge graph (kg_requests)
    cache, kg_requests, kg_builds,
    \* AdvancedBankingChatbot: the fields active_sessions, summary_memory (its
    \* messages), memory (its messages) and customer_context, the sessions
    \* started so far, and what each call did
    active_sessions, summary_memory, memory, customer_context, sessions_started,
    bank_log

hybridVars ==
    << enable_web_fallback, max_web_requests, failed_lookups, web_request_count,
       learned_patterns, dynamic_cache, categorize_cache, lru_order, net_log, pc, text,
       custom_mapping, organizations, modified_text, replacements_made, metadata,
       industry, confidence, applied, calls >>

probeVars == << probe, outcome >>

batchVars ==
    << batch_pc, batch_text, batch_given, batch_pending, batch_modified_text,
       batch_replacements >>

appVars == << ner_pc, ner_text, ents, fake_value, fake_text, ner_map, restored >>

kgVars == << cache, kg_requests, kg_builds >>

bankVars ==
    << active_sessions, summary_memory, memory, customer_context, sessions_started,
       bank_log >>

\* seq[:n]
Take(seq, n) == SubSeq(seq, 1, Min(n, Len(seq)))

\* the instance fields that the methods below read and write
Self ==
    [failed_lookups |-> failed_lookups,
     web_request_count |-> web_request_count,
     learned_patterns |-> learned_patterns,
     dynamic_cache |-> dynamic_cache,
     categorize_cache |-> categorize_cache,
     lru_order |-> lru_order,
     net_log |-> net_log]

(***************************************************************************)
(* The remote summary service as seen by discover_organization_web         *)
(***************************************************************************)

\* requests.get raises (timeout, connection error)
Timeout ==
    [error |-> TRUE, status_code |-> 0, json_ok |-> FALSE,
     extract_kind |-> "absent", extract |-> ""]

\* a non-200 answer
NotFound ==
    [error |-> FALSE, status_code |-> 404, json_ok |-> FALSE,
     extract_kind |-> "absent", extract |-> ""]

\* a 200 answer whose body does not parse
InvalidJson ==
    [error |-> FALSE, status_code |-> 200, json_ok |-> FALSE,
     extract_kind |-> "absent", extract |-> ""]

\* a 200 answer whose 'extract' is null, absent, or the given string
Summary(kind, extract) ==
    [error |-> FALSE, status_code |-> 200, json_ok |-> TRUE,
     extract_kind |-> kind, extract |-> extract]

Responses ==
    { Timeout, NotFound, InvalidJson,
      Summary("null", ""), Summary("absent", ""), Summary("string", ShortSummary),
      Summary("string", EnergySummary), Summary("string", PlainSummary) }

\* the try block raises: requests.get, response.json() or None.lower()
ResponseRaises(response) ==
    \/ response.error
    \/ response.status_code = 200 /\ ~response.json_ok
    \/ response.status_code = 200 /\ response.extract_kind = "null"

\* data.get('extract', '').lower() of a 200 answer that parsed
ResponseExtract(response) ==
    IF response.extract_kind = "string" THEN StrLower(response.extract) ELSE ""

\* the test of line 226 with >= in place of >
UsableFromFifty(response) ==
    /\ ~ResponseRaises(response)
    /\ response.status_code = 200
    /\ Len(ResponseExtract(response)) >= 50

\* status 200 and `extract and len(extract) > 50`
ResponseUsable(response) ==
    /\ ~ResponseRaises(response)
    /\ response.status_code = 200
    /\ Len(ResponseExtract(response)) > 50

\* how an enrichment attempt ended, for net_log
ResponseOutcome(response) ==
    IF ResponseRaises(response) THEN "exception"
    ELSE IF ResponseUsable(response) THEN "summary"
    ELSE "unusable"

(***************************************************************************)
(* HybridOrganizationReplacer methods                                      *)
(***************************************************************************)

\* @lru_cache(maxsize=2000)
lru_maxsize == 2000

\* del d[k]
DictDel(d, k) == [x \in DOMAIN d \ {k} |-> d[x]]

\* a cache hit makes the key the most recently used one
LruTouch(order, key) == SelectSeq(order, LAMBDA k : k # key) \o <<key>>

\* a cache miss stores the result; a full cache first drops its least
\* recently used entry
LruStore(self, key, result) ==
    IF Len(self.lru_order) >= lru_maxsize
    THEN [self EXCEPT
             !.categorize_cache = DictSet(DictDel(@, Head(self.lru_order)), key, result),
             !.lru_order = Append(Tail(@), key)]
    ELSE [self EXCEPT
             !.categorize_cache = DictSet(@, key, result),
             !.lru_order = Append(@, key)]

\* fast_categorize_organization behind @lru_cache(maxsize=2000)
fast_categorize_organization(self, org_name) ==
    IF org_name \in DOMAIN self.categorize_cache
    THEN [self |-> [self EXCEPT !.lru_order = LruTouch(@, org_name)],
          result |-> self.categorize_cache[org_name]]
    ELSE With(CategorizeUncached(org_name, self.learned_patterns), LAMBDA result :
           [self |-> LruStore(self, org_name, result), result |-> result])

OrganizationInfo(name, category, conf, source) ==
    [name |-> name, category |-> category, industry |-> category,
     confidence |-> conf, source |-> source]

\* what discover_organization_web hands back: the instance as it leaves it,
\* the Optional[OrganizationInfo], and whether an exception escapes the call
Discovered(self, org_info, raised) ==
    [self |-> self, org_info |-> org_info, raised |-> raised]

\* lines 223-243: a usable summary is classified and learned
DiscoverFromSummary(asked, org_name, response) ==
    With(categorize_from_description(ResponseExtract(response)), LAMBDA c :
      With(OrganizationInfo(org_name, c.industry, c.confidence, "web"), LAMBDA org_info :
        Discovered([asked EXCEPT
                       !.learned_patterns = DictSet(@, StrLower(org_name), c.industry),
                       !.dynamic_cache = DictSet(@, org_name, org_info)],
                   Some(org_info), FALSE)))

\* lines 245-256: without a usable summary, the local classifier decides
DiscoverInferred(asked, org_name) ==
    With(fast_categorize_organization(asked, org_name), LAMBDA fc :
      With(OrganizationInfo(org_name, fc.result.industry,
                            fc.result.confidence, "inferred"), LAMBDA org_info :
        IF fc.result.confidence > 500
        THEN Discovered([fc.self EXCEPT
                            !.dynamic_cache = DictSet(@, org_name, org_info)],
                        Some(org_info), FALSE)
        ELSE Discovered(fc.self, None, FALSE)))

\* an exception that no handler catches leaves discover_organization_web
DiscoverUncaught(asked, org_name) == Discovered(asked, None, TRUE)

\* lines 258-262: `except Exception` around the request and its parsing
DiscoverFailed(asked, org_name) ==
    Discovered([asked EXCEPT !.failed_lookups = @ \cup {org_name}], None, FALSE)

\* the test of line 210 left out
FailureForgotten(self, org_name) == FALSE

\* line 210: `if org_name in self.failed_lookups`
KnownFailure(self, org_name) == org_name \in self.failed_lookups

\* the increment of line 217 left out
CountNothing(n) == n

\* line 217: `self.web_request_count += 1`
CountRequest(n) == n + 1

\* the budget test with > in place of >=
BudgetOverspent(self) == self.web_request_count > max_web_requests

\* line 213: `if self.web_request_count >= self.max_web_requests`
BudgetSpent(self) == self.web_request_count >= max_web_requests

\* discover_organization_web; response is what the remote service answers
\* if it is asked
discover_organization_web(self, org_name, response) ==
    IF ~enable_web_fallback THEN Discovered(self, None, FALSE)
    ELSE IF KnownFailure(self, org_name) THEN Discovered(self, None, FALSE)
    ELSE IF BudgetSpent(self) THEN Discovered(self, None, FALSE)
    ELSE
        With([self EXCEPT
                 !.web_request_count = CountRequest(@),
                 !.net_log = Append(@, [name |-> org_name,
                                        outcome |-> ResponseOutcome(response)])],
             LAMBDA asked :
               IF ResponseRaises(response) THEN DiscoverFailed(asked, org_name)
               ELSE IF ResponseUsable(response) THEN
                   DiscoverFromSummary(asked, org_name, response)
               ELSE DiscoverInferred(asked, org_name))

\* relationships without an entry, and .get() with [] as its default
NoRelatedIndustries(ind) == <<>>

\* _get_related_industries
related_industries(ind) ==
    CASE ind = "technology" -> <<"finance", "media", "healthcare">>
      [] ind = "finance" -> <<"technology", "healthcare", "retail">>
      [] ind = "healthcare" -> <<"technology", "finance">>
      [] ind = "retail" -> <<"technology", "media">>
      [] ind = "media" -> <<"technology", "entertainment">>
      [] ind = "automotive" -> <<"technology", "energy">>
      [] ind = "energy" -> <<"technology", "automotive">>
      [] ind = "aerospace" -> <<"technology", "automotive">>
      [] ind = "education" -> <<"technology", "healthcare">>
      [] OTHER -> <<"technology">>

\* the category's list without the exclusion of the input name
CandidatesIncluding(ind, org_name) == CoreDbGet(ind)

\* [org for org in self.core_db.get(industry, []) if org.lower() != org_name.lower()]
CandidatesExcluding(ind, org_name) ==
    SelectSeq(CoreDbGet(ind), LAMBDA org : StrLower(org) # StrLower(org_name))

RECURSIVE ExtendUpToCount(_, _, _, _)
\* Step 5 with the test of line 324 against count in place of count * 2
ExtendUpToCount(similar_orgs, related, org_name, count) ==
    IF Len(related) = 0 THEN similar_orgs
    ELSE IF Len(similar_orgs) >= count THEN similar_orgs
    ELSE ExtendUpToCount(
             similar_orgs
               \o SelectSeq(CoreDbGet(Head(related)),
                            LAMBDA org : /\ ~InList(org, similar_orgs)
                                         /\ StrLower(org) # StrLower(org_name)),
             Tail(related), org_name, count)

RECURSIVE ExtendWithRelated(_, _, _, _)
\* Step 5: the loop over the related industries
ExtendWithRelated(similar_orgs, related, org_name, count) ==
    IF Len(related) = 0 THEN similar_orgs
    ELSE IF Len(similar_orgs) >= count * 2 THEN similar_orgs
    ELSE LET additional ==
                 SelectSeq(CoreDbGet(Head(related)),
                           LAMBDA org : /\ ~InList(org, similar_orgs)
                                        /\ StrLower(org) # StrLower(org_name))
         IN  ExtendWithRelated(similar_orgs \o additional, Tail(related), org_name, count)

\* Step 6 for the order `variations` in which the generator offers its names:
\* the first `need` of them that are not yet in the list are appended.  The
\* loop ends only if the generator has enough distinct names to offer;
\* otherwise it never ends (diverges).
AppendGenerated(similar_orgs, variations, need) ==
    LET fresh == {k \in 1..Len(variations) :
                     /\ ~InList(variations[k], similar_orgs)
                     /\ \A j \in 1..(k - 1) : variations[j] # variations[k]}
    IN  IF need <= 0 THEN [diverges |-> FALSE, similar_orgs |-> similar_orgs]
        ELSE IF Cardinality(fresh) < need THEN
            [diverges |-> TRUE, similar_orgs |-> similar_orgs]
        ELSE [diverges |-> FALSE,
              similar_orgs |-> similar_orgs
                  \o [n \in 1..need |->
                         variations[CHOOSE k \in fresh :
                                       Cardinality({j \in fresh : j <= k}) = n]]]

\* Step 6: `while len(similar_orgs) < count`, appending generated names that are
\* not yet in the list
SynthesizeMissing(similar_orgs, org_name, ind, count, rnd) ==
    AppendGenerated(similar_orgs,
                    RandomShuffle(GeneratedVariations(org_name, ind), rnd),
                    count - Len(similar_orgs))

\* what get_similar_organizations_hybrid hands back: besides the returned list
\* similar_orgs, the classification the pool was built from, the pool before
\* the shuffle, whether the call fails to return (the loop of step 6 never
\* ends, or an exception escapes), and what steps 1, 2 and 4 went through
\* (tried)
Similar(self, diverges, raised, similar_orgs, used, pool, tried) ==
    [self |-> self, diverges |-> diverges, raised |-> raised,
     similar_orgs |-> similar_orgs, industry |-> used.industry,
     confidence |-> used.confidence, pool |-> pool, tried |-> tried]

\* steps 1, 2 and 4 of get_similar_organizations_hybrid: the local
\* classification fc, the candidates built from it, whether step 4 called
\* discover_organization_web, what it returned, the candidates the fill of
\* steps 5 and 6 starts from, and the candidates after step 5 (extended)
Tried(fc, local, asked, org_info, fresh) ==
    [local |-> fc.result, local_pool |-> local, asked |-> asked,
     org_info |-> org_info, fresh |-> fresh, extended |-> fresh]

\* Steps 5 and 6 and the final shuffle, for the pool `fresh` built from the
\* classification `used`
HybridFill(self, used, fresh, org_name, count, rnd, tried) ==
    With(IF Len(fresh) < count
         THEN ExtendWithRelated(fresh, related_industries(used.industry), org_name, count)
         ELSE fresh,
         LAMBDA extended :
           With(SynthesizeMissing(extended, org_name, used.industry, count, rnd),
                LAMBDA filled :
                  Similar(self, filled.diverges, FALSE,
                          IF filled.diverges THEN <<>>
                          ELSE Take(RandomShuffle(filled.similar_orgs, rnd), count),
                          used, filled.similar_orgs,
                          [tried EXCEPT !.extended = extended])))

\* the comparison of line 309 with >= in place of >
AtLeastAsConfident(org_info, conf) == org_info[1].confidence >= conf

\* line 309: `org_info.confidence > confidence`
MoreConfident(org_info, conf) == org_info[1].confidence > conf

\* Step 4: the enrichment result d replaces the local classification fc and
\* its pool when it is more confident; asked tells whether
\* discover_organization_web was called
HybridAfterDiscovery(d, asked, fc, local, org_name, count, rnd) ==
    IF d.raised THEN
        Similar(d.self, FALSE, TRUE, <<>>, fc.result, local,
                Tried(fc, local, asked, None, local))
    ELSE IF d.org_info # None /\ MoreConfident(d.org_info, fc.result.confidence)
    THEN With(CandidatesExcluding(d.org_info[1].industry, org_name), LAMBDA fresh :
           HybridFill(d.self,
                      [industry |-> d.org_info[1].industry,
                       confidence |-> d.org_info[1].confidence],
                      fresh, org_name, count, rnd,
                      Tried(fc, local, asked, d.org_info, fresh)))
    ELSE HybridFill(d.self, fc.result, local, org_name, count, rnd,
                    Tried(fc, local, asked, d.org_info, local))

\* get_similar_organizations_hybrid
get_similar_organizations_hybrid(self, org_name, count, response, rnd) ==
    With(fast_categorize_organization(self, org_name), LAMBDA fc :
      With(CandidatesExcluding(fc.result.industry, org_name), LAMBDA local :
        IF Len(local) >= count /\ fc.result.confidence > 700 THEN
            Similar(fc.self, FALSE, FALSE, Take(RandomShuffle(local, rnd), count),
                    fc.result, local, Tried(fc, local, FALSE, None, local))
        ELSE
            HybridAfterDiscovery(
                IF fc.result.confidence < 700 /\ enable_web_fallback
                THEN discover_organization_web(fc.self, org_name, response)
                ELSE Discovered(fc.self, None, FALSE),
                fc.result.confidence < 700 /\ enable_web_fallback,
                fc, local, org_name, count, rnd)))

\* `if replacement:` for None or a string
Truthy(replacement) == replacement # None /\ replacement[1] # ""

\* the result of one loop iteration: the replacement, its source, the locals
\* industry and confidence as the iteration leaves them, the category whose
\* catalog list the replacement was drawn from ("" if none) with the
\* confidence of that classification (None if none), and how the iteration
\* ends ("next", or "diverged" / "raised" when control never reaches line 454)
Resolved(self, ends, replacement, source, ind, conf, category, pool_confidence) ==
    [self |-> self, ends |-> ends, replacement |-> replacement,
     source |-> source, industry |-> ind, confidence |-> conf,
     category |-> category, pool_confidence |-> pool_confidence]

\* line 426: `if custom_mapping and org_name in custom_mapping`
IsCustom(org_name) ==
    custom_mapping # EmptyDict /\ org_name \in DOMAIN custom_mapping

\* lines 427-428: the custom override
ResolveCustom(self, org_name) ==
    Resolved(self, "next", Some(custom_mapping[org_name]), "custom",
             industry, confidence, "", None)

\* the candidates of the high-confidence path taken to be none
NoFastCandidates(fc, org_name) == <<>>

\* lines 433-436: the candidates of the high-confidence path
FastCandidates(fc, org_name) ==
    IF fc.result.confidence > 700
    THEN CandidatesExcluding(fc.result.industry, org_name)
    ELSE <<>>

\* lines 437-440: a random candidate of the resolved category
ResolveDatabase(fc, candidates, rnd_choice) ==
    Resolved(fc.self, "next", Some(RandomChoice(candidates, rnd_choice)),
             "database", Some(fc.result.industry), Some(fc.result.confidence),
             fc.result.industry, Some(fc.result.confidence))

\* lines 442-452: dynamic discovery, then the final fallback
ResolveDynamic(h, fc, org_name, rnd_choice) ==
    IF h.raised \/ h.diverges THEN
        Resolved(h.self, IF h.raised THEN "raised" ELSE "diverged", None,
                 "unknown", Some(fc.result.industry), Some(fc.result.confidence), "",
                 None)
    ELSE IF Len(h.similar_orgs) > 0 THEN
        Resolved(h.self, "next", Some(RandomChoice(h.similar_orgs, rnd_choice)),
                 "dynamic", Some(fc.result.industry), Some(fc.result.confidence),
                 h.industry, Some(h.confidence))
    ELSE
        Resolved(h.self, "next",
                 Some(generate_contextual_organization(org_name, fc.result.industry,
                                                       rnd_choice)),
                 "generated", Some(fc.result.industry), Some(fc.result.confidence), "",
                 None)

\* lines 429-452 for a name without a custom override
ResolveUnmapped(self, org_name, response, rnd_shuffle, rnd_choice) ==
    With(fast_categorize_organization(self, org_name), LAMBDA fc :
      With(FastCandidates(fc, org_name), LAMBDA candidates :
        IF Len(candidates) > 0 THEN ResolveDatabase(fc, candidates, rnd_choice)
        ELSE ResolveDynamic(
                 get_similar_organizations_hybrid(fc.self, org_name, 5,
                                                  response, rnd_shuffle),
                 fc, org_name, rnd_choice)))

\* whether the name takes the high-confidence path (line 437)
HasFastCandidates(self, org_name) ==
    Len(FastCandidates(fast_categorize_organization(self, org_name), org_name)) > 0

\* organizations.sort(key=lambda x: x[1], reverse=True): a stable sort
SortByStartDescending(entities) ==
    LET Rank(i) == Cardinality({j \in 1..Len(entities) :
                                   \/ entities[j].start > entities[i].start
                                   \/ /\ entities[j].start = entities[i].start
                                      /\ j < i}) + 1
    IN  [k \in 1..Len(entities) |->
            entities[CHOOSE i \in 1..Len(entities) : Rank(i) = k]]

(***************************************************************************)
(* Actions of HybridOrganizationReplacer                                   *)
(***************************************************************************)

\* HybridOrganizationReplacer.__init__ (lines 29-63); no call is in progress
HybridInit ==
    /\ enable_web_fallback \in BOOLEAN
    /\ max_web_requests \in 0..MaxWebRequests
    /\ failed_lookups = {}
    /\ web_request_count = 0
    /\ learned_patterns = EmptyDict
    /\ dynamic_cache = EmptyDict
    /\ categorize_cache = EmptyDict
    /\ lru_order = <<>>
    /\ net_log = <<>>
    /\ pc = "idle"
    /\ text = ""
    /\ custom_mapping = EmptyDict
    /\ organizations = <<>>
    /\ modified_text = ""
    /\ replacements_made = EmptyDict
    /\ metadata = EmptyDict
    /\ industry = None
    /\ confidence = None
    /\ applied = <<>>
    /\ calls = 0

\* no method is applied on its own
ProbeIdle == probe = None /\ outcome = None

\* a new KnowledgeGraphReplacer (lines 42-49)
KgIdle == cache = EmptyDict /\ kg_requests = <<>> /\ kg_builds = <<>>

\* a new AdvancedBankingChatbot (lines 24-53 and 251-266)
BankIdle ==
    /\ active_sessions = EmptyDict
    /\ summary_memory = <<>>
    /\ memory = <<>>
    /\ customer_context = EmptyDict
    /\ sessions_started = 0
    /\ bank_log = <<>>

\* fake_ner_replace is not called
AppIdle ==
    /\ ner_pc = "idle"
    /\ ner_text = ""
    /\ ents = <<>>
    /\ fake_value = None
    /\ fake_text = ""
    /\ ner_map = <<>>
    /\ restored = None

\* batch_replace_organizations is not called
BatchIdle ==
    /\ batch_pc = "idle"
    /\ batch_text = ""
    /\ batch_given = <<>>
    /\ batch_pending = <<>>
    /\ batch_modified_text = ""
    /\ batch_replacements = EmptyDict

\* replace_organizations_hybrid is called: lines 411-419, and the early return
\* when no organization is found
Call(doc, mapping) ==
    /\ pc \in {"idle", "returned"}
    /\ calls < MaxCalls
    /\ calls' = calls + 1
    /\ text' = doc.text
    /\ custom_mapping' = mapping
    /\ organizations' = SortByStartDescending(doc.entities)
    /\ pc' = IF Len(doc.entities) = 0 THEN "returned" ELSE "loop"
    /\ modified_text' = doc.text
    /\ replacements_made' = EmptyDict
    /\ metadata' = EmptyDict
    /\ industry' = None
    /\ confidence' = None
    /\ applied' = <<>>
    /\ UNCHANGED << enable_web_fallback, max_web_requests, failed_lookups,
                    web_request_count, learned_patterns, dynamic_cache,
                    categorize_cache, lru_order, net_log, probeVars, batchVars,
                    appVars, kgVars, bankVars >>

\* the iteration's result r applied to the state: lines 454-462
Apply(org, r) ==
    /\ pc' = IF r.ends # "next" THEN r.ends
             ELSE IF Len(organizations) = 1 THEN "returned" ELSE "loop"
    /\ organizations' = Tail(organizations)
    /\ failed_lookups' = r.self.failed_lookups
    /\ web_request_count' = r.self.web_request_count
    /\ learned_patterns' = r.self.learned_patterns
    /\ dynamic_cache' = r.self.dynamic_cache
    /\ categorize_cache' = r.self.categorize_cache
    /\ lru_order' = r.self.lru_order
    /\ net_log' = r.self.net_log
    /\ industry' = r.industry
    /\ confidence' = r.confidence
    /\ modified_text' =
           IF Truthy(r.replacement)
           THEN Slice(modified_text, 0, org.start) \o r.replacement[1]
                \o Slice(modified_text, org.end_pos, Len(modified_text))
           ELSE modified_text
    /\ replacements_made' =
           IF Truthy(r.replacement)
           THEN DictSet(replacements_made, org.name, r.replacement[1])
           ELSE replacements_made
    /\ metadata' =
           IF Truthy(r.replacement)
           THEN DictSet(metadata, org.name,
                        [source |-> r.source,
                         industry |-> IF r.industry = None THEN "unknown"
                                      ELSE r.industry[1],
                         confidence |-> IF r.confidence = None THEN 0
                                        ELSE r.confidence[1]])
           ELSE metadata
    /\ applied' = Append(applied,
                         [name |-> org.name, start |-> org.start,
                          end_pos |-> org.end_pos,
                          replacement |-> r.replacement, source |-> r.source,
                          category |-> r.category,
                          pool_confidence |-> r.pool_confidence,
                          industry |-> r.industry,
                          confidence |-> r.confidence,
                          learned_before |-> learned_patterns,
                          failed_before |-> failed_lookups,
                          count_before |-> web_request_count,
                          count_after |-> r.self.web_request_count,
                          requests_before |-> Len(net_log),
                          asked |-> Len(r.self.net_log) > Len(net_log)])
    /\ UNCHANGED << enable_web_fallback, max_web_requests, text, custom_mapping,
                    calls, probeVars, batchVars, appVars, kgVars, bankVars >>

\* one iteration of the for loop (lines 421-462) for a name with a custom
\* override; after the last iteration the call returns (line 464)
IterateCustom ==
    /\ pc = "loop"
    /\ IsCustom(Head(organizations).name)
    /\ Apply(Head(organizations), ResolveCustom(Self, Head(organizations).name))

\* one iteration for a name on the high-confidence path, which reads neither
\* a response nor the shuffle
IterateDatabase(rnd_choice) ==
    /\ pc = "loop"
    /\ ~IsCustom(Head(organizations).name)
    /\ HasFastCandidates(Self, Head(organizations).name)
    /\ Apply(Head(organizations),
             ResolveUnmapped(Self, Head(organizations).name, NotFound, 0, rnd_choice))

\* one iteration for a name that goes through get_similar_organizations_hybrid
IterateDynamic(response, rnd_shuffle, rnd_choice) ==
    /\ pc = "loop"
    /\ ~IsCustom(Head(organizations).name)
    /\ ~HasFastCandidates(Self, Head(organizations).name)
    /\ Apply(Head(organizations),
             ResolveUnmapped(Self, Head(organizations).name, response,
                             rnd_shuffle, rnd_choice))

\* the draws of the random source
RandomNumbers == 0..(MaxRandom - 1)

vars == << hybridVars, probeVars, batchVars, appVars, kgVars, bankVars >>

Init == HybridInit /\ ProbeIdle /\ BatchIdle /\ AppIdle /\ KgIdle /\ BankIdle

Next ==
    \/ \E request \in Requests : Call(request.doc, request.custom_mapping)
    \/ IterateCustom
    \/ \E rnd_choice \in RandomNumbers : IterateDatabase(rnd_choice)
    \/ \E response \in Responses, rnd_shuffle, rnd_choice \in RandomNumbers :
          IterateDynamic(response, rnd_shuffle, rnd_choice)

\* one HybridOrganizationReplacer instance serving calls
Spec == Init /\ [][Next]_vars

(***************************************************************************)
(* fast_categorize_organization applied to the names of the catalog        *)
(***************************************************************************)

\* a string as written, in lower case and in upper case
CaseVariants(s) == {s, StrLower(s), StrUpper(s)}

\* every listing of core_db (a name under a category), with a case variant
\* of the name to ask about
CatalogProbes ==
    UNION { UNION { { [org_name |-> v, listed |-> core_db[k].orgs[j],
                       category |-> core_db[k].industry] :
                      v \in CaseVariants(core_db[k].orgs[j]) } :
                    j \in 1..Len(core_db[k].orgs) } :
            k \in 1..Len(core_db) }

CategorizeInit ==
    HybridInit /\ BatchIdle /\ AppIdle /\ KgIdle /\ BankIdle /\ probe \in CatalogProbes /\ outcome = None

\* fast_categorize_organization(probe.org_name) on a new instance
Categorize ==
    /\ outcome = None
    /\ \E fc \in {fast_categorize_organization(Self, probe.org_name)} :
          /\ outcome' = Some(fc.result)
          /\ categorize_cache' = fc.self.categorize_cache
          /\ lru_order' = fc.self.lru_order
    /\ UNCHANGED << enable_web_fallback, max_web_requests, failed_lookups,
                    web_request_count, learned_patterns, dynamic_cache, net_log,
                    pc, text, custom_mapping, organizations, modified_text,
                    replacements_made, metadata, industry, confidence, applied,
                    calls, probe, batchVars, appVars, kgVars, bankVars >>

CategorizeNext == Categorize

SpecCategorize == CategorizeInit /\ [][CategorizeNext]_vars

TiersInit ==
    HybridInit /\ BatchIdle /\ AppIdle /\ KgIdle /\ BankIdle /\ probe \in [org_name : TierNames] /\ outcome = None

\* fast_categorize_organization of a name on a new instance
SpecTiers == TiersInit /\ [][CategorizeNext]_vars

(***************************************************************************)
(* fast_categorize_organization asked twice about one name, with an        *)
(* enrichment of that name and classifications of other names in between   *)
(***************************************************************************)

\* the number of other names classified in between
MaxFillers == 2000

\* the k-th of the other names: three letters, distinct for distinct k
FillerName(k) ==
    SubSeq(LowerLetters, ((k \div 676) % 26) + 1, ((k \div 676) % 26) + 1)
    \o SubSeq(LowerLetters, ((k \div 26) % 26) + 1, ((k \div 26) % 26) + 1)
    \o SubSeq(LowerLetters, (k % 26) + 1, (k % 26) + 1)

\* how many of the other names are in the cache
Filled == Len(SelectSeq(lru_order, LAMBDA k : k # probe.org_name))

\* a method's effect on the instance fields
Store(self) ==
    /\ failed_lookups' = self.failed_lookups
    /\ web_request_count' = self.web_request_count
    /\ learned_patterns' = self.learned_patterns
    /\ dynamic_cache' = self.dynamic_cache
    /\ categorize_cache' = self.categorize_cache
    /\ lru_order' = self.lru_order
    /\ net_log' = self.net_log
    /\ UNCHANGED << enable_web_fallback, max_web_requests, pc, text, custom_mapping,
                    organizations, modified_text, replacements_made, metadata,
                    industry, confidence, applied, calls, probe, batchVars, appVars, kgVars, bankVars >>

\* a new instance with enrichment enabled; outcome collects the results of
\* fast_categorize_organization(probe.org_name)
MemoInit ==
    /\ HybridInit
    /\ BatchIdle
    /\ AppIdle /\ KgIdle /\ BankIdle
    /\ enable_web_fallback
    /\ max_web_requests = MaxWebRequests
    /\ probe = [org_name |-> "CloudNinja"]
    /\ outcome = <<>>

\* fast_categorize_organization(probe.org_name): first on the new instance,
\* and once more at any time after the enrichment
MemoProbe ==
    /\ Len(outcome) < 2
    /\ Len(outcome) = 1 => net_log # <<>>
    /\ \E fc \in {fast_categorize_organization(Self, probe.org_name)} :
          /\ outcome' = Append(outcome, fc.result)
          /\ Store(fc.self)

\* discover_organization_web(probe.org_name)
MemoDiscover(response) ==
    /\ Len(outcome) = 1
    /\ net_log = <<>>
    /\ Store(discover_organization_web(Self, probe.org_name, response).self)
    /\ UNCHANGED outcome

\* fast_categorize_organization of the next other name
MemoFill ==
    /\ Len(outcome) = 1
    /\ net_log # <<>>
    /\ Filled < MaxFillers
    /\ Store(fast_categorize_organization(Self, FillerName(Filled + 1)).self)
    /\ UNCHANGED outcome

MemoNext ==
    \/ MemoProbe
    \/ \E response \in Responses : MemoDiscover(response)
    \/ MemoFill

SpecMemo == MemoInit /\ [][MemoNext]_vars

(***************************************************************************)
(* generate_contextual_organization applied on its own                     *)
(***************************************************************************)

\* random.choice draws 0 .. MaxVariationDraw - 1 reach every variation
MaxVariationDraw == 7

GeneratorNames ==
    { "Acme", "Acme Corp", "Acme Group", "Acme Solutions", "Acme Technologies",
      "Acme Finance", "Blue Sky Corp", "Global Sky", "Sky Enterprises",
      "CloudNinja" }

\* the categories fast_categorize_organization and
\* categorize_from_description can return
Industries == {industry_patterns[k].industry : k \in 1..Len(industry_patterns)}

GenerateInit ==
    /\ HybridInit
    /\ BatchIdle
    /\ AppIdle /\ KgIdle /\ BankIdle
    /\ probe \in [org_name : GeneratorNames, industry : Industries]
    /\ outcome = None

\* generate_contextual_organization(probe.org_name, probe.industry)
Generate(rnd) ==
    /\ outcome = None
    /\ outcome' = Some(generate_contextual_organization(probe.org_name,
                                                        probe.industry, rnd))
    /\ UNCHANGED << hybridVars, probe, batchVars, appVars, kgVars, bankVars >>

GenerateNext == \E rnd \in 0..(MaxVariationDraw - 1) : Generate(rnd)

SpecGenerate == GenerateInit /\ [][GenerateNext]_vars

(***************************************************************************)
(* get_similar_organizations_hybrid applied on its own                     *)
(***************************************************************************)

\* how many times the method is called on the instance
MaxSimilarCalls == 2

\* what the remote service may answer: a failure, an unusable answer, and
\* usable summaries, one of which gives "Solar Wind" another category with the
\* confidence of the local one
SimilarResponses ==
    { Timeout, NotFound, Summary("string", ShortSummary),
      Summary("string", EnergySummary), Summary("string", PlainSummary),
      Summary("string", BankSummary) }

\* the default count of line 286, and counts above what one category, what
\* two categories, and what the whole catalog, can supply
SimilarCounts == {5, 30, 50, 100}

\* a new instance; outcome collects what the calls hand back
SimilarInit ==
    /\ HybridInit
    /\ BatchIdle
    /\ AppIdle /\ KgIdle /\ BankIdle
    /\ probe \in [org_name : SimilarNames, count : SimilarCounts]
                   \cup [org_name : CategoryNames, count : {5}]
    /\ outcome = <<>>

\* get_similar_organizations_hybrid(probe.org_name, probe.count); a call whose
\* loop never ends is the last one
SimilarCall(response, rnd) ==
    /\ Len(outcome) < MaxSimilarCalls
    /\ \A i \in 1..Len(outcome) : ~outcome[i].diverges
    /\ \E h \in {get_similar_organizations_hybrid(Self, probe.org_name, probe.count,
                                                  response, rnd)} :
          /\ outcome' = Append(outcome,
                               [diverges |-> h.diverges, raised |-> h.raised,
                                similar_orgs |-> h.similar_orgs,
                                industry |-> h.industry,
                                confidence |-> h.confidence, pool |-> h.pool,
                                tried |-> h.tried])
          /\ Store(h.self)

SimilarNext == \E response \in SimilarResponses, rnd \in 0..(MaxRandom - 1) :
                   SimilarCall(response, rnd)

SpecSimilar == SimilarInit /\ [][SimilarNext]_vars

(***************************************************************************)
(* discover_organization_web and fast_categorize_organization applied on   *)
(* their own                                                               *)
(***************************************************************************)

\* how many calls the instance receives
MaxDiscoverCalls == 2

\* what the remote service may answer, with an extract of exactly 50
\* characters
DiscoverResponses == Responses \cup {Summary("string", FiftySummary)}

\* a new instance; outcome collects what the calls did
DiscoverInit ==
    /\ HybridInit
    /\ BatchIdle
    /\ AppIdle /\ KgIdle /\ BankIdle
    /\ probe \in [org_name : DiscoverNames]
    /\ outcome = <<>>

\* discover_organization_web(probe.org_name); local is what
\* fast_categorize_organization gives the name at the time of the call
DiscoverCall(response) ==
    /\ Len(outcome) < MaxDiscoverCalls
    /\ \E d \in {discover_organization_web(Self, probe.org_name, response)} :
          /\ outcome' = Append(outcome,
                 [op |-> "discover", response |-> response,
                  issued |-> d.self.web_request_count > web_request_count,
                  raised |-> d.raised, org_info |-> d.org_info,
                  result |-> fast_categorize_organization(Self, probe.org_name).result,
                  learned_before |-> learned_patterns,
                  learned_after |-> d.self.learned_patterns])
          /\ Store(d.self)

\* fast_categorize_organization(probe.org_name)
DiscoverCategorize ==
    /\ Len(outcome) < MaxDiscoverCalls
    /\ \E fc \in {fast_categorize_organization(Self, probe.org_name)} :
          /\ outcome' = Append(outcome,
                 [op |-> "categorize", response |-> NotFound, issued |-> FALSE,
                  raised |-> FALSE, org_info |-> None, result |-> fc.result,
                  learned_before |-> learned_patterns,
                  learned_after |-> fc.self.learned_patterns])
          /\ Store(fc.self)

DiscoverNext ==
    \/ \E response \in DiscoverResponses : DiscoverCall(response)
    \/ DiscoverCategorize

SpecDiscover == DiscoverInit /\ [][DiscoverNext]_vars

(***************************************************************************)
(* KnowledgeGraphReplacer: build_organization_profile and                  *)
(* find_similar_organizations                                              *)
(***************************************************************************)

\* what the knowledge graph holds: for a name the entity the search finds,
\* with the values of its claims P452 (industry), P31 (instance_of), P414
\* (stock_exchange) and P749 (parent_organization); a name not listed is not
\* found
KgEntities ==
    << [name |-> "Acme", wikidata_id |-> "Q1", industry |-> <<"I1", "I2">>,
        instance_of |-> <<"T1">>, stock_exchange |-> <<"X1">>,
        parent_organization |-> <<"P1">>],
       [name |-> "acme", wikidata_id |-> "Q1", industry |-> <<"I1", "I2">>,
        instance_of |-> <<"T1">>, stock_exchange |-> <<"X1">>,
        parent_organization |-> <<"P1">>],
       [name |-> "Globex", wikidata_id |-> "Q2", industry |-> <<"I1">>,
        instance_of |-> <<"T1", "T2">>, stock_exchange |-> <<"X1">>,
        parent_organization |-> <<>>],
       [name |-> "Initech", wikidata_id |-> "Q3", industry |-> <<"I2", "I3">>,
        instance_of |-> <<"T2">>, stock_exchange |-> <<>>,
        parent_organization |-> <<"P2">>],
       [name |-> "Hooli", wikidata_id |-> "Q5", industry |-> <<"I1", "I2">>,
        instance_of |-> <<"T1">>, stock_exchange |-> <<"X1">>,
        parent_organization |-> <<"P1">>],
       [name |-> "Soylent", wikidata_id |-> "Q6", industry |-> <<"I2">>,
        instance_of |-> <<>>, stock_exchange |-> <<>>,
        parent_organization |-> <<>>],
       [name |-> "Umbrella", wikidata_id |-> "Q4", industry |-> <<>>,
        instance_of |-> <<>>, stock_exchange |-> <<>>,
        parent_organization |-> <<>>] >>

\* how the knowledge graph answers one lookup: both requests succeed, the
\* search finds nothing or fails, or the request for the properties fails
KgAnswers == {"ok", "nosearch", "noprops"}

\* the instance fields that the methods read and write
KgSelf == [cache |-> cache, kg_requests |-> kg_requests, kg_builds |-> kg_builds]

\* the entity the search finds for a name, None if there is none
KgEntity(entity_name) ==
    IF \E k \in 1..Len(KgEntities) : KgEntities[k].name = entity_name
    THEN Some(KgEntities[CHOOSE k \in 1..Len(KgEntities) :
                            KgEntities[k].name = entity_name])
    ELSE None

\* search_entity_wikidata, lines 72-102: the request and the id it gives; the
\* lookup of lines 69-70 is for a name in the cache, which
\* build_organization_profile never passes on
search_entity_wikidata(kself, entity_name, answer) ==
    [kself |-> [kself EXCEPT !.kg_requests =
                                 Append(@, [kind |-> "search", name |-> entity_name])],
     entity_id |-> IF answer = "nosearch" \/ KgEntity(entity_name) = None THEN None
                   ELSE Some(KgEntity(entity_name)[1].wikidata_id)]

\* get_entity_properties: the request and the entity it gives, None for {}
get_entity_properties(kself, entity_name, answer) ==
    [kself |-> [kself EXCEPT !.kg_requests =
                                 Append(@, [kind |-> "properties", name |-> entity_name])],
     entity_data |-> IF answer = "noprops" THEN None ELSE KgEntity(entity_name)]

\* OrganizationProfile built from the claims (lines 166-180); the fields
\* headquarters, founded, employee_count, revenue and subsidiaries are not
\* read by any method
OrganizationProfile(entity_name, entity) ==
    [name |-> entity_name, wikidata_id |-> entity.wikidata_id,
     industry |-> entity.industry, instance_of |-> entity.instance_of,
     stock_exchange |-> entity.stock_exchange,
     parent_organization |-> entity.parent_organization]

\* what build_organization_profile hands back, with the call noted in
\* kg_builds: the name, whether the cache had it, the result, and the number
\* of requests before and after
Built(kself, entity_name, hit, profile, before) ==
    [kself |-> [kself EXCEPT !.kg_builds =
                   Append(@, [name |-> entity_name, hit |-> hit, profile |-> profile,
                              cache_before |-> before.cache,
                              requests_before |-> Len(before.kg_requests),
                              requests_after |-> Len(kself.kg_requests)])],
     profile |-> profile]

\* the write of line 183 left out
BuiltNotCached(kself, entity_name, profile) == kself

\* line 183: `self.cache[entity_name] = profile`
CacheProfile(kself, entity_name, profile) ==
    [kself EXCEPT !.cache = DictSet(@, entity_name, profile)]

\* build_organization_profile
build_organization_profile(kself, entity_name, answer) ==
    IF entity_name \in DOMAIN kself.cache THEN
        Built(kself, entity_name, TRUE, Some(kself.cache[entity_name]), kself)
    ELSE With(search_entity_wikidata(kself, entity_name, answer), LAMBDA found :
      IF found.entity_id = None THEN
          Built(found.kself, entity_name, FALSE, None, kself)
      ELSE With(get_entity_properties(found.kself, entity_name, answer), LAMBDA got :
        IF got.entity_data = None THEN
            Built(got.kself, entity_name, FALSE, None, kself)
        ELSE With(OrganizationProfile(entity_name, got.entity_data[1]), LAMBDA profile :
               Built(CacheProfile(got.kself, entity_name, profile), entity_name,
                     FALSE, Some(profile), kself))))

\* len(set(a) & set(b)) / len(set(a) | set(b)) in sixths; the lists of
\* KgEntities have unions of one, two or three values
JaccardSixths(a, b) ==
    (6 * Cardinality(Range(a) \cap Range(b))) \div Cardinality(Range(a) \cup Range(b))

\* one term of calculate_similarity_score: what it adds to score (in sixths of
\* tenths) and to total_weight (in tenths)
SimilarityTerm(a, b, weight) ==
    IF Len(a) > 0 /\ Len(b) > 0
    THEN [score |-> JaccardSixths(a, b) * weight, weight |-> weight]
    ELSE [score |-> 0, weight |-> 0]

\* the term of lines 215-218, which adds 0.1 for any common parent
ParentTerm(a, b) ==
    IF Len(a) > 0 /\ Len(b) > 0
    THEN [score |-> IF Range(a) \cap Range(b) # {} THEN 6 ELSE 0, weight |-> 1]
    ELSE [score |-> 0, weight |-> 0]

\* calculate_similarity_score as the fraction num / den, den > 0
calculate_similarity_score(org1, org2) ==
    With(<<SimilarityTerm(org1.industry, org2.industry, 4),
           SimilarityTerm(org1.instance_of, org2.instance_of, 3),
           SimilarityTerm(org1.stock_exchange, org2.stock_exchange, 2),
           ParentTerm(org1.parent_organization, org2.parent_organization)>>,
         LAMBDA terms :
           With(terms[1].weight + terms[2].weight + terms[3].weight + terms[4].weight,
                LAMBDA total_weight :
                  IF total_weight > 0
                  THEN [num |-> terms[1].score + terms[2].score + terms[3].score
                                  + terms[4].score,
                        den |-> 6 * total_weight]
                  ELSE [num |-> 0, den |-> 1]))

\* a >= b for fractions
FracGeq(a, b) == a.num * b.den >= b.num * a.den

\* line 256: `similarity >= min_similarity`
ReachesThreshold(similarity, min_similarity) == FracGeq(similarity, min_similarity)

\* the list left in the order of the candidates
NotSorted(pairs) == pairs

\* similar_orgs.sort(key=lambda x: x[1], reverse=True): a stable sort
SortBySimilarityDescending(pairs) ==
    LET Rank(i) == Cardinality({j \in 1..Len(pairs) :
                       \/ ~FracGeq(pairs[i].similarity, pairs[j].similarity)
                       \/ /\ FracGeq(pairs[i].similarity, pairs[j].similarity)
                          /\ FracGeq(pairs[j].similarity, pairs[i].similarity)
                          /\ j < i}) + 1
    IN  [k \in 1..Len(pairs) |-> pairs[CHOOSE i \in 1..Len(pairs) : Rank(i) = k]]

RECURSIVE ScanCandidates(_, _, _, _, _, _, _)
\* the loop of lines 247-260 from candidate k on
ScanCandidates(kself, target_org, target_profile, candidates, min_similarity, answers, k) ==
    IF k > Len(candidates) THEN [kself |-> kself, similar_orgs |-> <<>>]
    ELSE IF StrLower(candidates[k]) = StrLower(target_org) THEN
        ScanCandidates(kself, target_org, target_profile, candidates, min_similarity,
                       answers, k + 1)
    ELSE With(build_organization_profile(kself, candidates[k], answers[k]), LAMBDA b :
      With(ScanCandidates(b.kself, target_org, target_profile, candidates,
                          min_similarity, answers, k + 1), LAMBDA rest :
        IF b.profile = None THEN rest
        ELSE With(calculate_similarity_score(target_profile, b.profile[1]),
                  LAMBDA similarity :
                    IF ReachesThreshold(similarity, min_similarity)
                    THEN [rest EXCEPT !.similar_orgs =
                              <<[candidate |-> candidates[k],
                                 similarity |-> similarity]>> \o @]
                    ELSE rest)))

\* find_similar_organizations; answers[0] is how the knowledge graph answers
\* for the target and answers[k] for the k-th candidate
find_similar_organizations(kself, target_org, candidates, min_similarity, max_results, answers) ==
    With(build_organization_profile(kself, target_org, answers[0]), LAMBDA t :
      IF t.profile = None THEN [kself |-> t.kself, similar_orgs |-> <<>>]
      ELSE With(ScanCandidates(t.kself, target_org, t.profile[1], candidates,
                               min_similarity, answers, 1), LAMBDA scanned :
             [kself |-> scanned.kself,
              similar_orgs |-> Take(SortBySimilarityDescending(scanned.similar_orgs),
                                    max_results)]))

\* how many calls the instance receives
MaxKgCalls == 2

\* the names asked about: found, found under another spelling, and not found
KgNames == {"Acme", "acme", "Globex", "Nowhere"}

\* candidate lists: with the target in another spelling, a name twice, names
\* that are not found, and names of equal similarity
KgCandidateLists ==
    { <<"Globex", "acme", "Initech", "Hooli">>,
      <<"Hooli", "Umbrella", "Acme", "Globex", "Hooli">>,
      <<"Nowhere", "Initech", "Globex", "Soylent">> }

\* the longest candidate list
MaxKgCandidates == 5

\* min_similarity: the default 0.3, the 0.2 of get_replacement_suggestion, and
\* 0.5, the similarity of Soylent to Acme
KgThresholds == {[num |-> 3, den |-> 10], [num |-> 2, den |-> 10], [num |-> 1, den |-> 2]}

\* max_results: the default 5, the 1 of get_replacement_suggestion, and 2
KgMaxResults == {1, 2, 5}

KgInit ==
    /\ HybridInit
    /\ ~enable_web_fallback
    /\ max_web_requests = 0
    /\ BatchIdle
    /\ AppIdle
    /\ BankIdle
    /\ KgIdle
    /\ probe \in [target_org : KgNames, candidates : KgCandidateLists,
                  min_similarity : KgThresholds, max_results : KgMaxResults]
    /\ outcome = <<>>

\* the instance after a method returned
KgStore(kself) ==
    /\ cache' = kself.cache
    /\ kg_requests' = kself.kg_requests
    /\ kg_builds' = kself.kg_builds
    /\ UNCHANGED << hybridVars, probe, batchVars, appVars, bankVars >>

\* find_similar_organizations(probe.target_org, probe.candidates,
\* probe.min_similarity, probe.max_results)
KgFindSimilar(answers) ==
    /\ Len(outcome) < MaxKgCalls
    /\ \E r \in {find_similar_organizations(KgSelf, probe.target_org, probe.candidates,
                                            probe.min_similarity, probe.max_results,
                                            answers)} :
          /\ outcome' = Append(outcome, [op |-> "find_similar",
                                          similar_orgs |-> r.similar_orgs,
                                          builds_before |-> Len(kg_builds)])
          /\ KgStore(r.kself)

\* build_organization_profile(probe.target_org)
KgBuild(answer) ==
    /\ Len(outcome) < MaxKgCalls
    /\ \E b \in {build_organization_profile(KgSelf, probe.target_org, answer)} :
          /\ outcome' = Append(outcome, [op |-> "build", similar_orgs |-> <<>>,
                                          builds_before |-> Len(kg_builds)])
          /\ KgStore(b.kself)

\* the answers of one call of find_similar_organizations: every lookup
\* succeeds but the one at position failed, which is answered by answer
KgAnswersFailingAt(failed, answer) ==
    [k \in 0..MaxKgCandidates |-> IF k = failed THEN answer ELSE "ok"]

KgNext ==
    \/ \E failed \in 0..MaxKgCandidates, answer \in KgAnswers :
          KgFindSimilar(KgAnswersFailingAt(failed, answer))
    \/ \E answer \in KgAnswers : KgBuild(answer)

SpecKg == KgInit /\ [][KgNext]_vars

(***************************************************************************)
(* banking_chatbot.py: BankingChatbot and AdvancedBankingChatbot           *)
(***************************************************************************)

\* the customers and the messages they send
Customers == {"alice", "bob"}

BankMessages == {"What is my balance?", "Close my account."}

\* how many calls the chatbot receives
MaxBankCalls == 4

\* line 210: `return "No conversation to summarize."`
NoConversation == <<"No conversation to summarize.">>

\* summary_response.content of lines 224-226: what the model answers to the
\* prompt that holds the messages
LlmSummary(messages) == <<"summary of", messages>>

\* line 359: `return {"error": "No active session found"}`
NoActiveSession == "No active session found"

\* the instance fields that the methods read and write
BankSelf ==
    [active_sessions |-> active_sessions, summary_memory |-> summary_memory,
     memory |-> memory, customer_context |-> customer_context,
     sessions_started |-> sessions_started]

\* one exchange kept by save_context: the input, the output, and who sent it
\* in which session (None outside a session); customer and session are not
\* stored by the code and serve to tell the exchanges apart
Exchange(message, customer_id, session) ==
    [input |-> message, output |-> <<"reply to", message>>,
     customer |-> customer_id, session |-> session]

\* the session that start_session starts next
NewSession(bself) == bself.sessions_started + 1

\* start_session
start_session(bself, customer_id) ==
    [bself EXCEPT !.sessions_started = NewSession(bself),
                  !.active_sessions =
                      DictSet(@, customer_id, [session |-> NewSession(bself),
                                               message_count |-> 0]),
                  !.summary_memory = <<>>]

\* lines 317-321 of chat_with_session: the session started if there is none,
\* and the message counted
SessionCounted(bself, customer_id) ==
    With(IF customer_id \in DOMAIN bself.active_sessions THEN bself
         ELSE start_session(bself, customer_id),
         LAMBDA started :
           [started EXCEPT !.active_sessions[customer_id].message_count = @ + 1])

\* chat_with_session; raises says that self.chain.invoke raised
chat_with_session(bself, message, customer_id, raises) ==
    With(SessionCounted(bself, customer_id), LAMBDA counted :
      [bself |-> IF raises THEN counted
                 ELSE [counted EXCEPT !.summary_memory =
                          Append(@, Exchange(message, customer_id,
                                             Some(counted.active_sessions[customer_id].session)))],
       session |-> Some(counted.active_sessions[customer_id].session),
       chat_history |-> counted.summary_memory,
       result |-> IF raises THEN None ELSE Some(<<"reply to", message>>),
       raised |-> raises])

\* get_conversation_history, lines 185-190
get_conversation_history(bself) == bself.memory

\* the customer's entry of customer_context, created when missing
ContextOf(bself, customer_id) ==
    DictGet(bself.customer_context, customer_id,
            [last_interaction |-> FALSE, last_conversation_summary |-> None])

\* save_conversation_summary; raises says that self.llm.invoke raised
save_conversation_summary(bself, customer_id, raises) ==
    With(get_conversation_history(bself), LAMBDA messages :
      IF messages = <<>> THEN
          [bself |-> bself, summary |-> Some(NoConversation), raised |-> FALSE]
      ELSE IF raises THEN [bself |-> bself, summary |-> None, raised |-> TRUE]
      ELSE [bself |-> [bself EXCEPT !.customer_context =
                          DictSet(@, customer_id,
                                  [ContextOf(bself, customer_id) EXCEPT
                                      !.last_conversation_summary =
                                          Some(LlmSummary(messages))])],
            summary |-> Some(LlmSummary(messages)),
            raised |-> FALSE])

\* end_session
end_session(bself, customer_id, raises) ==
    IF customer_id \notin DOMAIN bself.active_sessions THEN
        [bself |-> bself, session |-> None, chat_history |-> <<>>,
         result |-> Some([error |-> NoActiveSession]), raised |-> FALSE]
    ELSE With(save_conversation_summary(bself, customer_id, raises), LAMBDA saved :
      IF saved.raised THEN
          [bself |-> saved.bself,
           session |-> Some(bself.active_sessions[customer_id].session),
           chat_history |-> <<>>, result |-> None, raised |-> TRUE]
      ELSE
          [bself |-> [saved.bself EXCEPT
                         !.active_sessions = DictDel(@, customer_id),
                         !.summary_memory = <<>>],
           session |-> Some(bself.active_sessions[customer_id].session),
           chat_history |-> <<>>,
           result |-> Some([message_count |->
                                bself.active_sessions[customer_id].message_count,
                            conversation_summary |-> saved.summary[1]]),
           raised |-> FALSE])

\* chat; raises says that self.chain.invoke raised, which chat catches
chat(bself, message, customer_id, raises) ==
    [bself |-> IF raises THEN bself
               ELSE [bself EXCEPT
                        !.memory = Append(@, Exchange(message, customer_id, None)),
                        !.customer_context =
                            DictSet(@, customer_id,
                                    [ContextOf(bself, customer_id) EXCEPT
                                        !.last_interaction = TRUE])],
     session |-> None,
     chat_history |-> bself.memory,
     result |-> IF raises THEN Some(<<"I apologize">>)
                ELSE Some(<<"reply to", message>>),
     raised |-> FALSE]

BankInit ==
    /\ HybridInit
    /\ ~enable_web_fallback
    /\ max_web_requests = 0
    /\ ProbeIdle
    /\ BatchIdle
    /\ AppIdle
    /\ KgIdle
    /\ BankIdle

\* the instance after a method returned or raised, and the call noted in
\* bank_log with the sessions and the memory it found
BankStore(op, customer_id, message, r) ==
    /\ Len(bank_log) < MaxBankCalls
    /\ active_sessions' = r.bself.active_sessions
    /\ summary_memory' = r.bself.summary_memory
    /\ memory' = r.bself.memory
    /\ customer_context' = r.bself.customer_context
    /\ sessions_started' = r.bself.sessions_started
    /\ bank_log' = Append(bank_log,
                          [op |-> op, customer_id |-> customer_id, message |-> message,
                           session |-> r.session, chat_history |-> r.chat_history,
                           result |-> r.result, raised |-> r.raised,
                           before |-> BankSelf])
    /\ UNCHANGED << hybridVars, probeVars, batchVars, appVars, kgVars >>

BankStartSession(customer_id) ==
    \E started \in {start_session(BankSelf, customer_id)} :
       BankStore("start_session", customer_id, "",
                 [bself |-> started, session |-> Some(started.sessions_started),
                  chat_history |-> <<>>, result |-> None, raised |-> FALSE])

BankChatWithSession(message, customer_id, raises) ==
    BankStore("chat_with_session", customer_id, message,
              chat_with_session(BankSelf, message, customer_id, raises))

BankEndSession(customer_id, raises) ==
    BankStore("end_session", customer_id, "", end_session(BankSelf, customer_id, raises))

BankChat(message, customer_id, raises) ==
    BankStore("chat", customer_id, message, chat(BankSelf, message, customer_id, raises))

BankNext ==
    \/ \E customer_id \in Customers : BankStartSession(customer_id)
    \/ \E message \in BankMessages, customer_id \in Customers, raises \in BOOLEAN :
          BankChatWithSession(message, customer_id, raises)
    \/ \E customer_id \in Customers, raises \in BOOLEAN :
          BankEndSession(customer_id, raises)
    \/ \E message \in BankMessages, customer_id \in Customers, raises \in BOOLEAN :
          BankChat(message, customer_id, raises)

SpecBank == BankInit /\ [][BankNext]_vars

(***************************************************************************)
(* KnowledgeGraphReplacer.batch_replace_organizations                      *)
(***************************************************************************)

\* the default candidates of get_replacement_suggestion
default_candidates ==
    << "Microsoft", "Google", "Apple", "Amazon", "Meta", "Tesla", "IBM", "Oracle",
       "Reuters", "CNN", "BBC", "Associated Press", "Bloomberg", "Wall Street Journal",
       "JPMorgan Chase", "Goldman Sachs", "Morgan Stanley", "Bank of America",
       "Ford", "General Motors", "Toyota", "BMW", "Volkswagen",
       "Delta Air Lines", "American Airlines", "United Airlines", "Southwest Airlines",
       "Pfizer", "Johnson & Johnson", "Merck", "Novartis", "Roche" >>

RECURSIVE ReplaceFrom(_, _, _, _)
\* str.replace on s[i:]: the occurrences of old from left to right, not
\* overlapping; old is not empty
ReplaceFrom(s, i, old, new) ==
    IF i + Len(old) > Len(s) THEN Slice(s, i, Len(s))
    ELSE IF Slice(s, i, i + Len(old)) = old
    THEN new \o ReplaceFrom(s, i + Len(old), old, new)
    ELSE CharAt(s, i) \o ReplaceFrom(s, i + 1, old, new)

\* s.replace(old, new)
Replace(s, old, new) == ReplaceFrom(s, 0, old, new)

\* what find_similar_organizations(target_org, candidates, 0.2, 1) can return,
\* depending on what the knowledge graph answers: nothing (no profile for the
\* target, or no candidate similar enough), or the one best candidate, which is
\* never the target itself (line 248)
SimilarAnswers(target_org, candidates) ==
    {<<>>} \cup {<<candidates[k]>> : k \in {j \in 1..Len(candidates) :
                        LowerChars(candidates[j]) # LowerChars(target_org)}}

\* get_replacement_suggestion, for the list find_similar_organizations returned
get_replacement_suggestion(similar_orgs) ==
    IF Len(similar_orgs) > 0 THEN Some(similar_orgs[1]) ELSE None

BatchRequest(txt, orgs) == [text |-> txt, organizations |-> orgs]

\* the calls of batch_replace_organizations(text, organizations)
BatchRequests ==
    { BatchRequest("Microsoft and Reuters praised Microsoft", <<"Microsoft", "Reuters">>),
      BatchRequest("Microsoft sued Google", <<"Microsoft", "Google">>),
      BatchRequest("Microsoft sued Google", <<"Google", "Microsoft">>),
      BatchRequest("OpenAI hired staff", <<"OpenAI">>),
      BatchRequest("Hello there", <<>>) }

\* batch_replace_organizations is called: lines 299-300, and the return of
\* line 308 when the list is empty
BatchCall(request) ==
    /\ batch_pc \in {"idle", "returned"}
    /\ batch_text' = request.text
    /\ batch_given' = request.organizations
    /\ batch_pending' = request.organizations
    /\ batch_modified_text' = request.text
    /\ batch_replacements' = EmptyDict
    /\ batch_pc' = IF Len(request.organizations) = 0 THEN "returned" ELSE "loop"
    /\ UNCHANGED << hybridVars, probeVars, appVars, kgVars, bankVars, kgVars, bankVars >>

\* lines 303-306 for the suggestion `replacement`
BatchApply(replacement) ==
    /\ IF Truthy(replacement)
       THEN /\ batch_replacements' =
                   DictSet(batch_replacements, Head(batch_pending), replacement[1])
            /\ batch_modified_text' =
                   Replace(batch_modified_text, Head(batch_pending), replacement[1])
       ELSE UNCHANGED << batch_replacements, batch_modified_text >>
    /\ batch_pending' = Tail(batch_pending)
    /\ batch_pc' = IF Len(batch_pending) = 1 THEN "returned" ELSE "loop"
    /\ UNCHANGED << hybridVars, probeVars, appVars, kgVars, bankVars, batch_text, batch_given >>

\* one iteration of the loop (lines 302-306); after the last one the call
\* returns (line 308)
BatchIterate ==
    /\ batch_pc = "loop"
    /\ \E similar_orgs \in SimilarAnswers(Head(batch_pending), default_candidates) :
          BatchApply(get_replacement_suggestion(similar_orgs))

BatchInit ==
    HybridInit /\ ProbeIdle /\ BatchIdle /\ AppIdle /\ KgIdle /\ BankIdle /\ ~enable_web_fallback /\ max_web_requests = 0

BatchNext ==
    \/ \E request \in BatchRequests : BatchCall(request)
    \/ BatchIterate

\* one KnowledgeGraphReplacer instance serving calls
SpecBatch == BatchInit /\ [][BatchNext]_vars

(***************************************************************************)
(* app.py: fake_ner_replace and restore_fake_ner                           *)
(***************************************************************************)

Ent(txt, label) == [text |-> txt, label_ |-> label]

\* texts as nlp receives them (line 90), with doc.ents
NerDoc(txt, entities) == [text |-> txt, ents |-> entities]

NerDocs ==
    { NerDoc("Ann met Lee", <<Ent("Ann", "PERSON"), Ent("Lee", "PERSON")>>),
      NerDoc("Ann called Ann", <<Ent("Ann", "PERSON"), Ent("Ann", "PERSON")>>),
      NerDoc("Ann flew to Rome", <<Ent("Ann", "PERSON"), Ent("Rome", "GPE")>>),
      NerDoc("Ann paid 5 dollars", <<Ent("Ann", "PERSON"), Ent("5 dollars", "MONEY")>>),
      NerDoc("5 dollars for Ann", <<Ent("5 dollars", "MONEY"), Ent("Ann", "PERSON")>>),
      NerDoc("Ann left in May", <<Ent("Ann", "PERSON"), Ent("May", "DATE")>>),
      NerDoc("Ann joined Acme", <<Ent("Ann", "PERSON"), Ent("Acme", "ORG")>>),
      NerDoc("Hello there", <<>>) }

\* values the Faker providers may draw
FakerValues(label) ==
    CASE label = "PERSON" -> {"Bob Lee", "Eve Ray"}
      [] label = "GPE" -> {"Oslo", "Lima"}
      [] label = "DATE" -> {"1999-01-01"}
      [] label = "EMAIL" -> {"eve@example.org"}
      [] label = "PHONE" -> {"555-0100"}
      [] OTHER -> {}

\* the value fake_value holds at line 112 (Some), or None when the loop body
\* raises before it. For ORG, SmartOrgReplacement hands st.text, a function
\* of the streamlit module, to nlp, which accepts only text and raises; for
\* a label without a branch, fake_value keeps the value of the previous
\* iteration, and is unbound (UnboundLocalError) in the first one
FakeValues(ent, previous) ==
    IF ent.label_ = "ORG" THEN {None}
    ELSE IF FakerValues(ent.label_) # {} THEN {Some(v) : v \in FakerValues(ent.label_)}
    ELSE {previous}

\* d[k] = v on a dict kept as its items in insertion order: an existing key
\* keeps its place
ItemsSet(items, k, v) ==
    IF \E i \in 1..Len(items) : items[i].key = k
    THEN [i \in 1..Len(items) |->
             IF items[i].key = k THEN [key |-> k, value |-> v] ELSE items[i]]
    ELSE Append(items, [key |-> k, value |-> v])

RECURSIVE restore_fake_ner(_, _)
\* restore_fake_ner(text, ner_map): the replacements in the order of
\* ner_map.items()
restore_fake_ner(txt, items) ==
    IF Len(items) = 0 THEN txt
    ELSE restore_fake_ner(Replace(txt, Head(items).key, Head(items).value),
                          Tail(items))

\* fake_ner_replace up to the loop: lines 90-95
FakeNerCall(doc) ==
    /\ ner_pc \in {"idle", "restored", "raised"}
    /\ ner_text' = doc.text
    /\ ents' = doc.ents
    /\ fake_value' = None
    /\ fake_text' = doc.text
    /\ ner_map' = <<>>
    /\ restored' = None
    /\ ner_pc' = IF Len(doc.ents) = 0 THEN "returned" ELSE "loop"
    /\ UNCHANGED << hybridVars, probeVars, batchVars, kgVars, bankVars >>

\* one iteration of the loop (lines 96-115); after the last one the call
\* returns (line 117)
FakeNerIterate ==
    /\ ner_pc = "loop"
    /\ \E drawn \in FakeValues(Head(ents), fake_value) :
          IF drawn = None
          THEN /\ ner_pc' = "raised"
               /\ UNCHANGED << ents, fake_value, fake_text, ner_map >>
          ELSE /\ fake_value' = drawn
               /\ ner_map' = ItemsSet(ner_map, drawn[1], Head(ents).text)
               /\ fake_text' = Replace(fake_text, Head(ents).text, drawn[1])
               /\ ents' = Tail(ents)
               /\ ner_pc' = IF Len(ents) = 1 THEN "returned" ELSE "loop"
    /\ UNCHANGED << hybridVars, probeVars, batchVars, kgVars, bankVars, ner_text, restored >>

\* restore_fake_ner(fake_text, ner_map) on what fake_ner_replace returned
RestoreFakeNer ==
    /\ ner_pc = "returned"
    /\ restored' = Some(restore_fake_ner(fake_text, ner_map))
    /\ ner_pc' = "restored"
    /\ UNCHANGED << hybridVars, probeVars, batchVars, kgVars, bankVars, ner_text, ents, fake_value,
                    fake_text, ner_map >>

AppInit == HybridInit /\ ProbeIdle /\ BatchIdle /\ AppIdle /\ KgIdle /\ BankIdle

AppNext ==
    \/ \E doc \in NerDocs : FakeNerCall(doc)
    \/ FakeNerIterate
    \/ RestoreFakeNer

\* fake_ner_replace followed by restore_fake_ner
SpecApp == AppInit /\ [][AppNext]_vars

(***************************************************************************)
(* Properties                                                              *)
(***************************************************************************)

\* C1: when replace_organizations_hybrid has returned, all occurrences of one
\* name were given the identical replacement, and the returned mapping entry
\* of the name is the replacement written at each of its occurrences
C1_SameReplacementEverywhere ==
    pc = "returned" =>
        \A i, j \in 1..Len(applied) :
            applied[i].name = applied[j].name =>
                /\ applied[i].replacement = applied[j].replacement
                /\ Truthy(applied[i].replacement) =>
                       /\ applied[i].name \in DOMAIN replacements_made
                       /\ replacements_made[applied[i].name] = applied[i].replacement[1]

\* C2: the requests issued by the instance never exceed max_web_requests, and
\* a resolution that starts with the budget spent issues no request
C2_RequestBudget ==
    /\ Len(net_log) <= max_web_requests
    /\ \A i \in 1..Len(applied) :
          applied[i].asked => applied[i].requests_before < max_web_requests

\* C2 witness: with a budget of at least one request spent, a name that is
\* otherwise eligible for enrichment was resolved without a request
C2_BudgetSpentThenEligible ==
    /\ enable_web_fallback
    /\ max_web_requests >= 1
    /\ \E i \in 1..Len(applied) :
          /\ applied[i].requests_before = max_web_requests
          /\ applied[i].source = "dynamic"
          /\ ~applied[i].asked
          /\ applied[i].name \notin failed_lookups
          /\ categorize_cache[applied[i].name].confidence < 700

\* C3: every request that did not end in a usable summary left its name in
\* failed_lookups, and no later request was issued for that name
C3_FailureRemembered ==
    \A i \in 1..Len(net_log) :
        net_log[i].outcome # "summary" =>
            /\ net_log[i].name \in failed_lookups
            /\ \A j \in (i + 1)..Len(net_log) : net_log[j].name # net_log[i].name

\* C4: fast_categorize_organization on any case variant of a name listed under
\* category c returns exactly (c, 1.0)
C4_CatalogCategory ==
    outcome # None => outcome[1] = [industry |-> probe.category, confidence |-> 1000]

\* the catalog list of category ind has a name other than org_name
HasOtherName(ind, org_name) ==
    \E k \in 1..Len(CoreDbGet(ind)) : StrLower(CoreDbGet(ind)[k]) # StrLower(org_name)

\* C5: on the high-confidence path and on the hybrid path, when the catalog
\* list of the resolved category has a name other than the input, the
\* replacement differs from the input under case-insensitive comparison
C5_ReplacementDiffers ==
    \A i \in 1..Len(applied) :
        (/\ applied[i].source \in {"database", "dynamic"}
         /\ HasOtherName(applied[i].category, applied[i].name))
        => /\ Truthy(applied[i].replacement)
           /\ StrLower(applied[i].replacement[1]) # StrLower(applied[i].name)

\* C5 witness: one call resolved a name on the high-confidence path and a name
\* on the hybrid path, each from a category whose list has other names
C5_BothPathsTaken ==
    /\ pc = "returned"
    /\ \E i, j \in 1..Len(applied) :
          /\ applied[i].source = "database"
          /\ HasOtherName(applied[i].category, applied[i].name)
          /\ applied[j].source = "dynamic"
          /\ HasOtherName(applied[j].category, applied[j].name)

RECURSIVE ShiftAfter(_)
\* how far the replacements made after iteration i moved the text to their
\* right (they all lie to the left of occurrence i)
ShiftAfter(i) ==
    IF i >= Len(applied) THEN 0
    ELSE (IF Truthy(applied[i + 1].replacement)
          THEN Len(applied[i + 1].replacement[1])
               - (applied[i + 1].end_pos - applied[i + 1].start)
          ELSE 0) + ShiftAfter(i + 1)

\* C6: when the call has returned, every detected name that is a key of
\* custom_mapping was replaced in the text by custom_mapping[name], is reported
\* with that value and source 'custom', and was resolved without a request
C6_CustomOverrideApplied ==
    pc = "returned" =>
        \A i \in 1..Len(applied) :
            IsCustom(applied[i].name) =>
                /\ applied[i].source = "custom"
                /\ ~applied[i].asked
                /\ applied[i].name \in DOMAIN replacements_made
                /\ replacements_made[applied[i].name] = custom_mapping[applied[i].name]
                /\ metadata[applied[i].name].source = "custom"
                /\ Slice(modified_text, applied[i].start + ShiftAfter(i),
                         applied[i].start + ShiftAfter(i)
                           + Len(custom_mapping[applied[i].name]))
                     = custom_mapping[applied[i].name]

\* C7: no exception leaves replace_organizations_hybrid, and every name without
\* a custom override that was processed has a non-empty replacement recorded
\* under its key
C7_FailureAbsorbed ==
    /\ pc \notin {"raised", "diverged"}
    /\ \A i \in 1..Len(applied) :
          ~IsCustom(applied[i].name) =>
              /\ Truthy(applied[i].replacement)
              /\ applied[i].name \in DOMAIN replacements_made
              /\ replacements_made[applied[i].name] # ""

\* C7 witness: a call returned in which one request raised and another one got
\* an answer without a usable summary, and both names were replaced
C7_FailuresSeen ==
    /\ pc = "returned"
    /\ \E i, j \in 1..Len(applied) :
          /\ applied[i].asked
          /\ net_log[applied[i].requests_before + 1].outcome = "exception"
          /\ Truthy(applied[i].replacement)
          /\ applied[j].asked
          /\ net_log[applied[j].requests_before + 1].outcome = "unusable"
          /\ Truthy(applied[j].replacement)

\* C8: on the high-confidence path the replacement chosen for a catalog name
\* has the category of that name
C8_CategoryPreserved ==
    \A i \in 1..Len(applied) :
        (applied[i].source = "database" /\ lookupCategory(applied[i].name) # "") =>
            lookupCategory(applied[i].replacement[1]) = lookupCategory(applied[i].name)

\* C9: generate_contextual_organization never returns its input name
C9_GeneratedDiffers ==
    outcome # None => outcome[1] # probe.org_name

RECURSIVE ReplaceEachFrom(_, _, _)
\* s[i:] with every occurrence of a key of mapping replaced by its value, the
\* values themselves left alone
ReplaceEachFrom(s, i, mapping) ==
    IF i >= Len(s) THEN ""
    ELSE IF \E n \in DOMAIN mapping : Slice(s, i, i + Len(n)) = n
    THEN LET n == CHOOSE n \in DOMAIN mapping : Slice(s, i, i + Len(n)) = n
         IN  mapping[n] \o ReplaceEachFrom(s, i + Len(n), mapping)
    ELSE CharAt(s, i) \o ReplaceEachFrom(s, i + 1, mapping)

\* C10: when batch_replace_organizations has returned, the keys of the mapping
\* are exactly the given names, and the modified text is the given text with
\* every occurrence of each name replaced by the value mapped to it
C10_BatchRoundTrip ==
    batch_pc = "returned" =>
        /\ DOMAIN batch_replacements = Range(batch_given)
        /\ batch_modified_text = ReplaceEachFrom(batch_text, 0, batch_replacements)

\* C11: when restore_fake_ner has been applied to the pair that
\* fake_ner_replace returned, the result is the text that was substituted
C11_SubstitutionRoundTrip ==
    ner_pc = "restored" => restored = Some(ner_text)

\* the category that the special-case substring rules give a lower-cased
\* name, "" if none of their terms occurs in it
SpecialCaseCategory(org_lower) ==
    IF AnyTerm(org_lower, {"university", "college", "school"}) THEN "education"
    ELSE IF AnyTerm(org_lower, {"bank", "financial"}) THEN "finance"
    ELSE IF AnyTerm(org_lower, {"hospital", "medical", "health"}) THEN "healthcare"
    ELSE ""

\* C12: a name that is neither in the catalog, nor learned, nor fuzzy-matched
\* and that contains one of the special-case terms is classified by the
\* special-case rule with confidence 0.7, before keyword scoring is consulted
C12_SpecialCaseBeforeKeywords ==
    (/\ outcome # None
     /\ lookupCategory(probe.org_name) = ""
     /\ StrLower(probe.org_name) \notin DOMAIN learned_patterns
     /\ FuzzyMatch(StrLower(probe.org_name)).industry = ""
     /\ SpecialCaseCategory(StrLower(probe.org_name)) # "")
    => outcome[1] = [industry |-> SpecialCaseCategory(StrLower(probe.org_name)),
                     confidence |-> 700]

\* C13: once a name has a learned pattern c, every later classification of
\* that name by fast_categorize_organization (line 431) is (c, 0.8)
C13_LearnedCategoryReturned ==
    \A i \in 1..Len(applied) :
        (/\ applied[i].source # "custom"
         /\ StrLower(applied[i].name) \in DOMAIN applied[i].learned_before)
        => /\ applied[i].industry =
                  Some(applied[i].learned_before[StrLower(applied[i].name)])
           /\ applied[i].confidence = Some(800)

\* C14: any two calls of fast_categorize_organization with the same name on
\* one instance return the same (category, confidence), whatever enrichment
\* and however many classifications of other names happen between them
C14_SameNameSameResult ==
    Len(outcome) = 2 => outcome[1] = outcome[2]

\* C15: a request was issued only with enrichment enabled, for a name whose
\* local confidence was below 0.7, that was not in failed_lookups, and with
\* the request counter below max_web_requests; with enrichment disabled the
\* request counter, failed_lookups and learned_patterns are as constructed
C15_EnrichmentGuarded ==
    /\ \A i \in 1..Len(applied) :
          applied[i].asked =>
              /\ enable_web_fallback
              /\ applied[i].confidence # None
              /\ applied[i].confidence[1] < 700
              /\ applied[i].name \notin applied[i].failed_before
              /\ applied[i].count_before < max_web_requests
    /\ ~enable_web_fallback =>
          /\ web_request_count = 0
          /\ net_log = <<>>
          /\ failed_lookups = {}
          /\ learned_patterns = EmptyDict

\* C15 witness: a request was issued and raised, and a later call resolved
\* the same name without a request although budget was left
C15_AskedThenRefused ==
    /\ pc = "returned"
    /\ net_log # <<>>
    /\ \E j \in 1..Len(applied) :
          /\ ~applied[j].asked
          /\ applied[j].source = "dynamic"
          /\ applied[j].confidence[1] < 700
          /\ applied[j].name \in applied[j].failed_before
          /\ applied[j].count_before < max_web_requests

\* C16: web_request_count lies between 0 and max_web_requests, equals the
\* number of requests issued so far, and never decreased from one loop
\* iteration to a later one
C16_RequestCounter ==
    /\ 0 <= web_request_count
    /\ web_request_count <= max_web_requests
    /\ web_request_count = Len(net_log)
    /\ \A i \in 1..Len(applied) :
          /\ applied[i].count_before <= applied[i].count_after
          /\ applied[i].count_after <= web_request_count
          /\ applied[i].count_before = applied[i].requests_before
          /\ \A j \in (i + 1)..Len(applied) :
                applied[i].count_after <= applied[j].count_before

\* C16 witness: three requests were issued, one answered with a usable
\* summary, one with an unusable answer, and one that raised
C16_ThreeKindsOfAttempt ==
    /\ web_request_count = 3
    /\ \E i, j, k \in 1..Len(net_log) :
          /\ net_log[i].outcome = "summary"
          /\ net_log[j].outcome = "unusable"
          /\ net_log[k].outcome = "exception"

\* C17: a name without a custom override that fast_categorize_organization
\* gives a confidence above 0.7, in a category whose list holds another name,
\* is replaced by a name of that list, with source 'database', without a
\* request and with the request counter unchanged
C17_DatabasePath ==
    \A i \in 1..Len(applied) :
        (/\ applied[i].source # "custom"
         /\ applied[i].confidence[1] > 700
         /\ HasOtherName(applied[i].industry[1], applied[i].name))
        => /\ applied[i].source = "database"
           /\ Truthy(applied[i].replacement)
           /\ InList(applied[i].replacement[1], CoreDbGet(applied[i].industry[1]))
           /\ ~applied[i].asked
           /\ applied[i].count_after = applied[i].count_before

\* C17 witness: with enrichment enabled and budget left, a name classified by
\* a fuzzy match above 0.7 and a catalog name were replaced from the catalog
C17_FuzzyAndExactFromCatalog ==
    /\ enable_web_fallback
    /\ web_request_count < max_web_requests
    /\ \E i \in 1..Len(applied) :
          /\ applied[i].source = "database"
          /\ applied[i].confidence[1] > 700
          /\ applied[i].confidence[1] < 1000
    /\ \E i \in 1..Len(applied) :
          /\ applied[i].source = "database"
          /\ applied[i].confidence[1] = 1000

\* C18: get_similar_organizations_hybrid returns for every name and every
\* count, also for a count above what the catalog and the generator can
\* supply: the loop of step 6 ends
C18_SimilarTerminates ==
    \A i \in 1..Len(outcome) : ~outcome[i].diverges

\* C19: when replace_organizations_hybrid has returned, the metadata of each
\* name is that of the name's own resolution: for a replacement drawn from a
\* catalog pool, the category and the confidence of the classification the
\* pool was built from; for a custom override, never the category and
\* confidence computed for a different name earlier in the call
C19_MetadataOfOwnResolution ==
    pc = "returned" =>
        \A i \in 1..Len(applied) :
            (/\ Truthy(applied[i].replacement)
             /\ \A j \in (i + 1)..Len(applied) : applied[j].name # applied[i].name)
            => /\ applied[i].source \in {"database", "dynamic"}
                  => /\ metadata[applied[i].name].industry = applied[i].category
                     /\ Some(metadata[applied[i].name].confidence)
                            = applied[i].pool_confidence
               /\ applied[i].source = "custom"
                  => ~\E j \in 1..(i - 1) :
                        /\ applied[j].name # applied[i].name
                        /\ applied[j].source # "custom"
                        /\ applied[i].industry = applied[j].industry
                        /\ applied[i].confidence = applied[j].confidence

\* C20: in get_similar_organizations_hybrid the candidates are built from the
\* enrichment result's category exactly when enrichment returned a result
\* strictly more confident than the local classification; when it returned
\* none, or one of at most the local confidence, the local classification and
\* the candidates already built from it are kept
C20_EnrichedOnlyIfStrictlyMoreConfident ==
    \A i \in 1..Len(outcome) :
        ~outcome[i].raised =>
            IF /\ outcome[i].tried.org_info # None
               /\ outcome[i].tried.org_info[1].confidence
                      > outcome[i].tried.local.confidence
            THEN /\ outcome[i].industry = outcome[i].tried.org_info[1].industry
                 /\ outcome[i].confidence = outcome[i].tried.org_info[1].confidence
                 /\ outcome[i].tried.fresh
                        = CandidatesExcluding(outcome[i].tried.org_info[1].industry,
                                              probe.org_name)
            ELSE /\ outcome[i].industry = outcome[i].tried.local.industry
                 /\ outcome[i].confidence = outcome[i].tried.local.confidence
                 /\ outcome[i].tried.fresh = outcome[i].tried.local_pool

\* C20 witness: one call got an enrichment result of exactly the local
\* confidence in another category and kept the local one, and the next call
\* got a strictly more confident one and took its category and confidence
C20_EqualKeptThenHigherTaken ==
    /\ Len(outcome) = 2
    /\ outcome[1].tried.org_info # None
    /\ outcome[1].tried.org_info[1].confidence = outcome[1].tried.local.confidence
    /\ outcome[1].tried.org_info[1].industry # outcome[1].tried.local.industry
    /\ outcome[1].industry = outcome[1].tried.local.industry
    /\ outcome[2].tried.org_info # None
    /\ outcome[2].tried.org_info[1].confidence > outcome[2].tried.local.confidence
    /\ outcome[2].industry = outcome[2].tried.org_info[1].industry
    /\ outcome[2].confidence = outcome[2].tried.org_info[1].confidence

RECURSIVE SpansReplaced(_, _)
\* the text given to the call from offset `from` on, with the spans of the
\* iterations i, i - 1, .. 1 (from left to right) replaced by the replacements
\* chosen for them
SpansReplaced(i, from) ==
    IF i = 0 THEN Slice(text, from, Len(text))
    ELSE Slice(text, from, applied[i].start) \o applied[i].replacement[1]
         \o SpansReplaced(i - 1, applied[i].end_pos)

\* C21: when replace_organizations_hybrid has returned for entities with
\* non-overlapping spans, they were processed in descending start offset and
\* the modified text is the given text with each span replaced by the
\* replacement chosen for it, every other character unchanged and in place
C21_SpansReplacedInPlace ==
    (/\ pc = "returned"
     /\ \A i \in 1..Len(applied) : \A j \in (i + 1)..Len(applied) :
           applied[j].end_pos <= applied[i].start)
    => /\ \A i \in 1..Len(applied) : applied[i].replacement # None
       /\ modified_text = SpansReplaced(Len(applied), 0)

RECURSIVE ExtendedUntilCount(_, _, _, _)
\* the pool after the related categories were consulted in order, each one
\* adding its names that are neither in the pool nor the input name, until
\* the pool has reached `count`
ExtendedUntilCount(pool, related, org_name, count) ==
    IF Len(related) = 0 \/ Len(pool) >= count THEN pool
    ELSE ExtendedUntilCount(
             pool \o SelectSeq(CoreDbGet(Head(related)),
                               LAMBDA org : /\ ~InList(org, pool)
                                            /\ StrLower(org) # StrLower(org_name)),
             Tail(related), org_name, count)

\* C22 as stated: the related-category extension is not performed when the
\* pool has the requested count; otherwise it appends only names that are
\* neither in the pool nor the input name, and consults no further related
\* category once the pool has reached the requested count
C22_ExtensionStopsAtCount ==
    \A i \in 1..Len(outcome) :
        ~outcome[i].raised =>
            outcome[i].tried.extended
                = ExtendedUntilCount(outcome[i].tried.fresh,
                                     related_industries(outcome[i].industry),
                                     probe.org_name, probe.count)

\* C22 as amended: the related-category extension is not performed when the
\* pool has the requested count; otherwise it keeps the pool as its prefix,
\* appends only names that are neither in the pool nor the input name (in any
\* case), and consults no further related category once the pool has reached
\* twice the requested count
C22_ExtensionStopsAtTwiceCount ==
    \A i \in 1..Len(outcome) :
        ~outcome[i].raised =>
            /\ Len(outcome[i].tried.fresh) >= probe.count
                  => outcome[i].tried.extended = outcome[i].tried.fresh
            /\ Len(outcome[i].tried.fresh) < probe.count
                  => outcome[i].tried.extended
                        = ExtendedUntilCount(outcome[i].tried.fresh,
                                             related_industries(outcome[i].industry),
                                             probe.org_name, probe.count * 2)
            /\ \A a, b \in 1..Len(outcome[i].tried.extended) :
                  a # b => outcome[i].tried.extended[a] # outcome[i].tried.extended[b]
            /\ \A a \in 1..Len(outcome[i].tried.extended) :
                  StrLower(outcome[i].tried.extended[a]) # StrLower(probe.org_name)

\* C22 witness: a pool of finance below the count of 30 was extended with
\* technology, which reached the count, and with healthcare, which reached
\* twice the count, and not with retail
C22_PastCountUntilTwice ==
    \E i \in 1..Len(outcome) :
        /\ probe.count = 30
        /\ outcome[i].industry = "finance"
        /\ Len(outcome[i].tried.fresh) < 30
        /\ Len(outcome[i].tried.extended) >= 60
        /\ InList("Google", outcome[i].tried.extended)
        /\ InList("Pfizer", outcome[i].tried.extended)
        /\ ~InList("Walmart", outcome[i].tried.extended)

\* how many keywords of the k-th category of industry_patterns occur in txt
KeywordCount(k, txt) ==
    Cardinality({p \in 1..Len(industry_patterns[k].patterns) :
                    Contains(txt, industry_patterns[k].patterns[p])})

\* C23: a name that reaches the keyword tier (not in the catalog, not learned,
\* not fuzzy-matched) gets the first-defined category among those with the
\* highest number of keywords occurring in the lower-cased name, with
\* confidence min(0.6, count * 0.2), which is 0.2, 0.4 or 0.6; when no
\* keyword occurs it gets technology with confidence 0.3
C23_KeywordTier ==
    (/\ outcome # None
     /\ lookupCategory(probe.org_name) = ""
     /\ StrLower(probe.org_name) \notin DOMAIN learned_patterns
     /\ FuzzyMatch(StrLower(probe.org_name)).industry = "")
    => IF \A k \in 1..Len(industry_patterns) :
              KeywordCount(k, StrLower(probe.org_name)) = 0
       THEN outcome[1] = [industry |-> "technology", confidence |-> 300]
       ELSE /\ \E k \in 1..Len(industry_patterns) :
                 /\ \A j \in 1..Len(industry_patterns) :
                       KeywordCount(j, StrLower(probe.org_name))
                          <= KeywordCount(k, StrLower(probe.org_name))
                 /\ \A j \in 1..(k - 1) :
                       KeywordCount(j, StrLower(probe.org_name))
                          < KeywordCount(k, StrLower(probe.org_name))
                 /\ outcome[1].industry = industry_patterns[k].industry
                 /\ outcome[1].confidence
                       = Min(600, KeywordCount(k, StrLower(probe.org_name)) * 200)
            /\ outcome[1].confidence \in {200, 400, 600}

\* C23 witness: a name with one keyword of finance and one of healthcare and
\* no more of any other category was classified as finance, the category
\* defined first
C23_TieGoesToFirst ==
    /\ outcome # None
    /\ probe.org_name = "Bank of Health"
    /\ KeywordCount(2, StrLower(probe.org_name)) = 1
    /\ KeywordCount(3, StrLower(probe.org_name)) = 1
    /\ \A k \in 1..Len(industry_patterns) : KeywordCount(k, StrLower(probe.org_name)) <= 1
    /\ outcome[1] = [industry |-> "finance", confidence |-> 200]

\* the answers of the remote service the claim calls unusable: a non-200
\* answer, no extract, or an extract of at most 50 characters
UnusableAnswer(response) ==
    /\ ~response.error
    /\ \/ response.status_code # 200
       \/ /\ response.status_code = 200
          /\ response.json_ok
          /\ \/ response.extract_kind = "absent"
             \/ response.extract_kind = "string" /\ Len(response.extract) <= 50

\* C24: a request answered with an unusable summary makes
\* discover_organization_web return the local classification with source
\* 'inferred' exactly when the local confidence is above 0.5, and none
\* otherwise; no learned pattern is written
C24_InferredAboveHalf ==
    \A i \in 1..Len(outcome) :
        (/\ outcome[i].op = "discover"
         /\ outcome[i].issued
         /\ UnusableAnswer(outcome[i].response))
        => /\ ~outcome[i].raised
           /\ outcome[i].learned_after = outcome[i].learned_before
           /\ IF outcome[i].result.confidence > 500
              THEN outcome[i].org_info
                     = Some([name |-> probe.org_name,
                             category |-> outcome[i].result.industry,
                             industry |-> outcome[i].result.industry,
                             confidence |-> outcome[i].result.confidence,
                             source |-> "inferred"])
              ELSE outcome[i].org_info = None

\* C24 witness: for one name an extract of exactly 50 characters gave an
\* inferred result, and later, the name having a learned category of
\* confidence 0.8, a non-200 answer gave an inferred result of that category
C24_FiftyCharactersInferred ==
    \E i, j \in 1..Len(outcome) :
        /\ i < j
        /\ outcome[i].op = "discover"
        /\ outcome[i].issued
        /\ outcome[i].response = Summary("string", FiftySummary)
        /\ outcome[i].org_info # None
        /\ outcome[i].org_info[1].source = "inferred"
        /\ outcome[j].op = "discover"
        /\ outcome[j].issued
        /\ outcome[j].response = NotFound
        /\ outcome[j].org_info # None

\* C25: find_similar_organizations returns at most max_results pairs, in
\* order of non-increasing score, each with a score of at least
\* min_similarity, each a member of candidates and none the target in any
\* spelling; it returns the empty list when the target has no profile
C25_SimilarOrganizationsResult ==
    \A c \in 1..Len(outcome) :
      outcome[c].op = "find_similar" =>
        /\ Len(outcome[c].similar_orgs) <= probe.max_results
        /\ \A k \in 1..Len(outcome[c].similar_orgs) :
              /\ k > 1 => FracGeq(outcome[c].similar_orgs[k - 1].similarity,
                                  outcome[c].similar_orgs[k].similarity)
              /\ FracGeq(outcome[c].similar_orgs[k].similarity, probe.min_similarity)
              /\ InList(outcome[c].similar_orgs[k].candidate, probe.candidates)
              /\ StrLower(outcome[c].similar_orgs[k].candidate)
                    # StrLower(probe.target_org)
        /\ kg_builds[outcome[c].builds_before + 1].profile = None
              => outcome[c].similar_orgs = <<>>

\* C25 witness: a call that returned two pairs of different scores, the
\* higher first although its candidate came later in the list, and left out
\* a candidate that has a profile
C25_TwoRankedOneLeftOut ==
    \E c \in 1..Len(outcome) :
      /\ outcome[c].op = "find_similar"
      /\ Len(outcome[c].similar_orgs) = 2
      /\ ~FracGeq(outcome[c].similar_orgs[2].similarity,
                  outcome[c].similar_orgs[1].similarity)
      /\ \E i, j \in 1..Len(probe.candidates) :
            /\ i < j
            /\ probe.candidates[j] = outcome[c].similar_orgs[1].candidate
            /\ probe.candidates[i] = outcome[c].similar_orgs[2].candidate
      /\ \E b \in (outcome[c].builds_before + 2)..Len(kg_builds) :
            /\ kg_builds[b].profile # None
            /\ \A k \in 1..2 : outcome[c].similar_orgs[k].candidate # kg_builds[b].name

\* C30: build_organization_profile keeps every profile it built in the cache
\* under the name asked for, a later call for that name returns the same
\* profile without a request, and a lookup that failed is not cached and is
\* made again by the next call
C30_ProfilesCachedFailuresNot ==
    \A i \in 1..Len(kg_builds) :
      /\ kg_builds[i].hit =>
            /\ kg_builds[i].requests_after = kg_builds[i].requests_before
            /\ \E j \in 1..(i - 1) :
                  /\ kg_builds[j].name = kg_builds[i].name
                  /\ ~kg_builds[j].hit
                  /\ kg_builds[j].profile = kg_builds[i].profile
                  /\ kg_builds[j].profile # None
      /\ (~kg_builds[i].hit /\ kg_builds[i].profile # None) =>
            /\ kg_builds[i].name \in DOMAIN cache
            /\ cache[kg_builds[i].name] = kg_builds[i].profile[1]
            /\ \A j \in (i + 1)..Len(kg_builds) :
                  kg_builds[j].name = kg_builds[i].name => kg_builds[j].hit
      /\ (~kg_builds[i].hit /\ kg_builds[i].profile = None) =>
            /\ kg_builds[i].requests_after > kg_builds[i].requests_before
            /\ IF i < Len(kg_builds)
               THEN kg_builds[i].name \notin DOMAIN kg_builds[i + 1].cache_before
               ELSE kg_builds[i].name \notin DOMAIN cache
            /\ \A j \in (i + 1)..Len(kg_builds) :
                  (/\ kg_builds[j].name = kg_builds[i].name
                   /\ \A k \in (i + 1)..(j - 1) : kg_builds[k].name # kg_builds[i].name)
                  => /\ ~kg_builds[j].hit
                     /\ kg_builds[j].requests_after > kg_builds[j].requests_before

\* C30 witness: a name whose lookup failed, was looked up again with two
\* requests and built, and then came from the cache
C30_FailedThenBuiltThenCached ==
    \E i, j, k \in 1..Len(kg_builds) :
      /\ i < j /\ j < k
      /\ kg_builds[i].name = kg_builds[j].name
      /\ kg_builds[j].name = kg_builds[k].name
      /\ kg_builds[i].profile = None
      /\ ~kg_builds[j].hit
      /\ kg_builds[j].requests_after = kg_builds[j].requests_before + 2
      /\ kg_builds[k].hit
      /\ kg_builds[k].profile = kg_builds[j].profile

\* the instance as call i of bank_log left it
BankAfter(i) == IF i < Len(bank_log) THEN bank_log[i + 1].before ELSE BankSelf

\* the exchanges made through chat_with_session in the session of call i
\* before that call, in order
ExchangedInSession(i) ==
    LET InSession(j) == /\ bank_log[j].op = "chat_with_session"
                        /\ bank_log[j].customer_id = bank_log[i].customer_id
                        /\ bank_log[j].session = bank_log[i].session
                        /\ ~bank_log[j].raised
        Made[j \in 0..(i - 1)] ==
            IF j = 0 THEN <<>>
            ELSE IF InSession(j)
                 THEN Append(Made[j - 1],
                             Exchange(bank_log[j].message, bank_log[j].customer_id,
                                      bank_log[j].session))
                 ELSE Made[j - 1]
    IN  Made[i - 1]

\* C26: the history that chat_with_session passes to the model holds only
\* exchanges of that customer's current session, and no call of one customer
\* removes an exchange of another customer's active session from the history
C26_SessionsIsolated ==
    \A i \in 1..Len(bank_log) :
      /\ bank_log[i].op = "chat_with_session" =>
            \A k \in 1..Len(bank_log[i].chat_history) :
               /\ bank_log[i].chat_history[k].customer = bank_log[i].customer_id
               /\ bank_log[i].chat_history[k].session = bank_log[i].session
      /\ bank_log[i].op \in {"start_session", "end_session"} =>
            \A k \in 1..Len(bank_log[i].before.summary_memory) :
               With(bank_log[i].before.summary_memory[k], LAMBDA e :
                 (/\ e.customer # bank_log[i].customer_id
                  /\ e.customer \in DOMAIN bank_log[i].before.active_sessions
                  /\ Some(bank_log[i].before.active_sessions[e.customer].session)
                        = e.session)
                 => InList(e, BankAfter(i).summary_memory))

\* C27: end_session for a customer without a session returns the error
\* result and changes nothing; for a customer with a session it returns the
\* number of chat_with_session calls of the session as message_count and a
\* summary of the messages exchanged through chat_with_session in the
\* session, and leaves the customer without a session
C27_EndSessionSummary ==
    \A i \in 1..Len(bank_log) :
      (bank_log[i].op = "end_session" /\ ~bank_log[i].raised) =>
        IF bank_log[i].customer_id \notin DOMAIN bank_log[i].before.active_sessions
        THEN /\ bank_log[i].result = Some([error |-> NoActiveSession])
             /\ BankAfter(i) = bank_log[i].before
        ELSE /\ bank_log[i].result[1].message_count =
                   Cardinality({j \in 1..(i - 1) :
                                   /\ bank_log[j].op = "chat_with_session"
                                   /\ bank_log[j].customer_id = bank_log[i].customer_id
                                   /\ bank_log[j].session = bank_log[i].session})
             /\ bank_log[i].result[1].conversation_summary =
                   (IF ExchangedInSession(i) = <<>> THEN NoConversation
                    ELSE LlmSummary(ExchangedInSession(i)))
             /\ bank_log[i].customer_id \notin DOMAIN BankAfter(i).active_sessions

\* C28: a call of discover_organization_web writes learned_patterns only
\* when some keyword of industry_patterns occurs in the fetched summary, and
\* the learned tier never answers with confidence 0.8 for a name whose
\* learned category came from a summary without a keyword
C28_LearnedFromKeywordMatch ==
    \A c \in 1..Len(outcome) :
      /\ (outcome[c].op = "discover"
          /\ outcome[c].learned_after # outcome[c].learned_before)
            => \E k \in 1..Len(industry_patterns) :
                  \E t \in 1..Len(industry_patterns[k].patterns) :
                     Contains(ResponseExtract(outcome[c].response),
                              industry_patterns[k].patterns[t])
      /\ (outcome[c].op = "categorize" /\ outcome[c].result.confidence = 800)
            => \E b \in 1..(c - 1) :
                  /\ outcome[b].op = "discover"
                  /\ outcome[b].learned_after # outcome[b].learned_before
                  /\ \E k \in 1..Len(industry_patterns) :
                        \E t \in 1..Len(industry_patterns[k].patterns) :
                           Contains(ResponseExtract(outcome[b].response),
                                    industry_patterns[k].patterns[t])

\* C29: with count 5 every call of get_similar_organizations_hybrid that
\* returns hands back exactly 5 pairwise distinct names of the catalog, taken
\* from the pool that steps 2 to 5 built, to which step 6 added nothing
C29_FiveCatalogNames ==
    \A c \in 1..Len(outcome) :
      (probe.count = 5 /\ ~outcome[c].raised) =>
        /\ ~outcome[c].diverges
        /\ Len(outcome[c].similar_orgs) = 5
        /\ \A i, j \in 1..Len(outcome[c].similar_orgs) :
              i # j => outcome[c].similar_orgs[i] # outcome[c].similar_orgs[j]
        /\ \A i \in 1..Len(outcome[c].similar_orgs) :
              /\ outcome[c].similar_orgs[i] \in CatalogNames
              /\ InList(outcome[c].similar_orgs[i], outcome[c].pool)
        /\ outcome[c].pool = outcome[c].tried.extended

\* C29 witness: a call with count 5 for a name classified as energy, whose
\* own list is empty, returned 5 names taken from a related industry
C29_EnergyFilledFromRelated ==
    \E c \in 1..Len(outcome) :
      /\ probe.count = 5
      /\ outcome[c].industry = "energy"
      /\ outcome[c].tried.fresh = <<>>
      /\ Len(outcome[c].tried.extended) >= 5
      /\ Len(outcome[c].similar_orgs) = 5

=============================================================================
